---------------------------- MODULE Spec2Model ----------------------------
(***************************************************************************)
(* A model of the patch-canvas box of RaySession                            *)
(* (src/gui/patchcanvas/canvasbox.py) and of its two drag lines            *)
(* (canvaslinemov.py, canvasbezierlinemov.py).                              *)
(*                                                                         *)
(* Six specifications share the variables:                                 *)
(*   Spec        the life of one box: ports, portgroups and lines come and *)
(*               go, the box is wrapped, unwrapped, animated, renamed;     *)
(*   SpecLayout  updatePositions over boxes of many port sets, names,      *)
(*               inline-display states and themes;                         *)
(*   SpecWrap    the wrap animation of boxes with a portgroup below        *)
(*               another port;                                             *)
(*   SpecResize  the life of a box that is also dragged over the scene;    *)
(*   SpecSplit   split_in_two over all short strings;                      *)
(*   SpecLine    updateLinePos of the two drag lines.                      *)
(*                                                                         *)
(* Strings are sequences of one-character strings.  Lengths measured in    *)
(* pixels are integers; the width of a text is a fixed width per           *)
(* character.  Every Y coordinate and every height is held in units of     *)
(* 1/Den pixel, so that the eased animation ratios (ratio ** 4 and         *)
(* ratio ** 0.25) of the ratios in TickRatios are exact; the coordinates   *)
(* of the drag lines are held in units of 1/LineScale pixel.               *)
(*                                                                         *)
(* The box is not split.  What the box reads of the scene (loading_items,  *)
(* move_boxes) is an input of the handlers.  A port leaves the box after   *)
(* its portgroup and its connection lines have.  An exception raised by a  *)
(* method is a result of it, named in the error field.                     *)
(***************************************************************************)
EXTENDS Integers, Sequences, FiniteSets, TLC

\* ------------------------------------------------------------------ bounds
\* longest string over SplitAlphabet given to split_in_two in SpecSplit;
\* the strings over LongSplitAlphabet are one character longer
MaxStrLen == 5
\* most ports a box holds at once
MaxPorts == 2
\* most connection lines registered on the box at once
MaxLines == 1
\* most portgroups a box holds at once
MaxPortGroups == 1

\* --------------------------------------------------------------- utilities
Max(a, b) == IF a >= b THEN a ELSE b
Min(a, b) == IF a <= b THEN a ELSE b
Abs(a) == IF a >= 0 THEN a ELSE 0 - a

\* F(e), e being evaluated once: a local variable
Let(e, F(_)) == CHOOSE r \in {F(v) : v \in {e}} : TRUE

\* Python's s[a:b] for 0 <= a, 0 <= b
Slice(s, a, b) ==
    LET e == Min(b, Len(s))
    IN  IF a >= e THEN << >> ELSE SubSeq(s, a + 1, e)

\* Python's s[a:]
SliceFrom(s, a) == Slice(s, a, Len(s))

\* ------------------------------------------------------------ split_in_two
\* c.upper() == c : every character but a lower-case letter
UpperIsSelf(c) == c \notin {"a", "b", "c", "d", "e"}
IsDigit(c) == c \in {"1", "2"}

\* the indexes at which the plain separator sep stands
RECURSIVE PlainIndexes(_, _, _)
PlainIndexes(string, sep, i) ==
    IF i >= Len(string) THEN << >>
    ELSE (IF string[i + 1] = sep THEN << i >> ELSE << >>)
         \o PlainIndexes(string, sep, i + 1)

\* the 'capital' pass: last_was_digit changes only on characters that are
\* their own upper case
RECURSIVE CapitalIndexes(_, _, _)
CapitalIndexes(string, i, last_was_digit) ==
    IF i >= Len(string) THEN << >>
    ELSE LET c == string[i + 1]
         IN  IF UpperIsSelf(c)
             THEN (IF ~IsDigit(c) \/ ~last_was_digit THEN << i >> ELSE << >>)
                  \o CapitalIndexes(string, i + 1, IsDigit(c))
             ELSE CapitalIndexes(string, i + 1, last_was_digit)

SepOrder == << " ", "-", "_", "capital" >>

IndexesOf(string, sep) ==
    IF sep = "capital" THEN CapitalIndexes(string, 0, FALSE)
    ELSE PlainIndexes(string, sep, 0)

\* the separator class the loop stops on: the first that yields an index,
\* 'capital' when none does
RECURSIVE ChosenSepFrom(_, _)
ChosenSepFrom(string, k) ==
    IF k >= Len(SepOrder) THEN "capital"
    ELSE IF IndexesOf(string, SepOrder[k]) # << >> THEN SepOrder[k]
    ELSE ChosenSepFrom(string, k + 1)

ChosenSep(string) == ChosenSepFrom(string, 1)

\* the padding, one string short
RECURSIVE EmptiesShort(_)
EmptiesShort(n) ==
    IF n <= 1 THEN << >> ELSE << << >> >> \o EmptiesShort(n - 1)

RECURSIVE Empties(_)
Empties(n) == IF n <= 0 THEN << >> ELSE << << >> >> \o Empties(n - 1)

\* cut string at the indexes idx, from last_index on
RECURSIVE CutAt(_, _, _, _)
CutAt(string, idx, last_index, sep) ==
    IF idx = << >> THEN << SliceFrom(string, last_index) >>
    ELSE << Slice(string, last_index, Head(idx)) >>
         \o CutAt(string, Tail(idx),
                  IF sep = " " THEN Head(idx) + 1 ELSE Head(idx), sep)

\* the inner loop over sep_indexes: [best_index, best_dif]
RECURSIVE BestScan(_, _, _, _, _)
BestScan(seps, last_best, target, best_index, best_dif) ==
    IF seps = << >> THEN best_index
    ELSE LET s == Head(seps)
         IN  IF s <= last_best
             THEN BestScan(Tail(seps), last_best, target, best_index, best_dif)
             ELSE IF Abs(target - s) < best_dif
             THEN BestScan(Tail(seps), last_best, target, s, Abs(target - s))
             ELSE best_index

\* the loop  for i in range(n_lines, 1, -1)  : the best indexes appended
RECURSIVE BestIndexes(_, _, _, _, _, _)
BestIndexes(string, seps, sep, i, last_best, rest_len) ==
    IF i <= 1 THEN << >>
    ELSE Let(BestScan(seps, last_best, last_best + (rest_len \div i),
                      0, Len(string)),
             LAMBDA best :
                << best >>
                \o BestIndexes(string, seps, sep, i - 1, best,
                               Len(IF sep = " "
                                   THEN SliceFrom(string, best + 1)
                                   ELSE SliceFrom(string, best))))

split_in_two(string, n_lines) ==
    Let(ChosenSep(string), LAMBDA sep :
    Let(IndexesOf(string, sep), LAMBDA seps :
        IF seps = << >>
        THEN << string >> \o Empties(n_lines - 1)
        ELSE IF Len(seps) + 1 <= n_lines
        THEN CutAt(string, seps, 0, sep)
             \o Empties(n_lines - Len(seps) - 1)
        ELSE CutAt(string,
                   BestIndexes(string, seps, sep, n_lines, 0, Len(string)),
                   0, sep)))


\* ------------------------------------------------------------------- theme
\* canvas.theme, the read-only configuration the layout is given:
\* [port_height, port_spacing, port_spacingT, port_offset, box_header_height,
\*  box_header_spacing, port_in_portgrp_width, box_pen_width]
VARIABLE theme

\* the default theme
DefaultTheme ==
    [port_height |-> 16, port_spacing |-> 2, port_spacingT |-> 4,
     port_offset |-> 0, box_header_height |-> 24, box_header_spacing |-> 0,
     port_in_portgrp_width |-> 19, box_pen_width |-> 1]

\* the default theme, and a theme of other positive sizes, where the gap
\* between port types is smaller than the gap between ports and the
\* header has a spacing
Themes ==
    {DefaultTheme,
     [DefaultTheme EXCEPT !.port_height = 12, !.port_spacing = 6,
                          !.port_spacingT = 1, !.box_header_height = 31,
                          !.box_header_spacing = 3]}

port_height == theme.port_height
port_spacing == theme.port_spacing
port_spacingT == theme.port_spacingT
port_offset == theme.port_offset
box_header_height == theme.box_header_height
box_header_spacing == theme.box_header_spacing
port_in_portgrp_width == theme.port_in_portgrp_width
box_pen_width == theme.box_pen_width

\* options.max_port_width
max_port_width == 160

\* pixel width of one character of a title line: bold, not bold ('little'),
\* and bold reduced by two pixels (QFontMetrics.width)
TitleCharWidth == 9
LittleCharWidth == 8
ReducedCharWidth == 7

\* Y coordinates and heights are held in units of 1/Den pixel
Den == 65536
SY(y) == y * Den

PortTypes == << "AUDIO_JACK", "MIDI_JACK", "MIDI_ALSA", "PARAMETER" >>
PORT_TYPE_NULL == "NULL"
Alternates == << FALSE, TRUE >>

\* ------------------------------------------------------------------- state
VARIABLES
    \* canvas.port_list restricted to the ports of m_port_list_ids, in order:
    \* records [port_id, port_mode, port_type, is_alternate, name_w, portgrp_id]
    port_list,
    \* canvas.portgrp_list of this box:
    \* records [portgrp_id, port_mode, port_type, port_id_list, name_w]
    portgrp_list,
    \* the port widgets, port_id -> [visible, x, y, width, tw]
    port_widget,
    \* the portgroup widgets,
    \* portgrp_id -> [visible, x, y, width, ports_width, tw]
    portgrp_widget,
    \* box fields
    m_group_name, m_icon_type, top_icon, m_plugin_inline,
    _wrapped, _wrapping, _unwrapping, _wrapping_ratio,
    box_visible,
    \* [p_width, p_height, p_header_height, p_ex_width, p_ex_height,
    \*  p_wrapped_height, p_unwrapped_height, lines_choice, title_lines,
    \*  p_unwrap_triangle_pos, m_current_port_mode, p_width_in, p_width_out]
    geom,
    \* m_connection_lines: records [connection_id, port_id, path], the line
    \* ending at port_id, path being what its path was last computed from
    m_connection_lines,
    \* input and result of the pure functions (SpecSplit, SpecLine)
    fn_in, fn_out

vars == << port_list, portgrp_list, port_widget, portgrp_widget,
           m_group_name, m_icon_type, top_icon, m_plugin_inline,
           _wrapped, _wrapping, _unwrapping, _wrapping_ratio, box_visible,
           geom, m_connection_lines, fn_in, fn_out, theme >>

\* the box and what it reads of the canvas, as one record
Box ==
    [port_list |-> port_list, portgrp_list |-> portgrp_list,
     port_widget |-> port_widget, portgrp_widget |-> portgrp_widget,
     m_group_name |-> m_group_name, m_icon_type |-> m_icon_type,
     top_icon |-> top_icon, m_plugin_inline |-> m_plugin_inline,
     _wrapped |-> _wrapped, _wrapping |-> _wrapping,
     _unwrapping |-> _unwrapping, _wrapping_ratio |-> _wrapping_ratio,
     box_visible |-> box_visible, geom |-> geom,
     m_connection_lines |-> m_connection_lines,
     n_recompute |-> 0, n_resize |-> 0, n_show |-> 0, n_hide |-> 0]

m_port_list_ids(b) == [i \in 1..Len(b.port_list) |-> b.port_list[i].port_id]
PortIdSet(b) == {b.port_list[i].port_id : i \in 1..Len(b.port_list)}
PortGrpIdSet(b) == {b.portgrp_list[i].portgrp_id : i \in 1..Len(b.portgrp_list)}

\* ------------------------------------------------ collaborators (utils.py)
\* index of x in the sequence s, 0 when absent
IndexIn(s, x) ==
    IF \E i \in 1..Len(s) : s[i] = x
    THEN CHOOSE i \in 1..Len(s) : s[i] = x /\ \A j \in 1..(i - 1) : s[j] # x
    ELSE 0

\* index in canvas.portgrp_list of the first portgroup with this id, or 0
PortGrpIndex(pgl, portgrp_id) ==
    IF \E i \in 1..Len(pgl) : pgl[i].portgrp_id = portgrp_id
    THEN CHOOSE i \in 1..Len(pgl) :
            /\ pgl[i].portgrp_id = portgrp_id
            /\ \A j \in 1..(i - 1) : pgl[j].portgrp_id # portgrp_id
    ELSE 0

\* CanvasGetPortGroupPosition: << position, length >>
CanvasGetPortGroupPosition(pgl, port_id, portgrp_id) ==
    LET k == PortGrpIndex(pgl, portgrp_id)
    IN  IF portgrp_id <= 0 \/ k = 0 THEN << 0, 1 >>
        ELSE LET ids == pgl[k].port_id_list
                 i == IndexIn(ids, port_id)
             IN  IF i = 0 THEN << 0, 1 >> ELSE << i - 1, Len(ids) >>

\* set_print_name / reduce_print_name: the text is cut until it fits
LimitedWidth(w, limit) == Min(w, Max(limit, 0))

\* -------------------------------------------------------------- splitTitle
\* TitleLine: QFontMetrics(font).width(text), a fixed width per character
TitleLine(text, little) ==
    [text |-> text, is_little |-> little,
     size |-> Len(text) * (IF little THEN LittleCharWidth ELSE TitleCharWidth)]

\* TitleLine.reduce_pixel(2)
reduce_pixel(line) == [line EXCEPT !.size = Len(line.text) * ReducedCharWidth]

RECURSIVE NonEmptyLines(_)
NonEmptyLines(parts) ==
    IF parts = << >> THEN << >>
    ELSE (IF Head(parts) # << >> THEN << TitleLine(Head(parts), FALSE) >>
          ELSE << >>)
         \o NonEmptyLines(Tail(parts))

splitTitle(b, n_lines) ==
    LET name == b.m_group_name
        k == IndexIn(name, "/")
        title == IF k = 0 THEN name ELSE Slice(name, 0, k - 1)
        subtitle == IF k = 0 THEN << >> ELSE SliceFrom(name, k)
    IN  IF b.m_icon_type = "ICON_CLIENT" /\ subtitle # << >>
        THEN << TitleLine(title, TRUE) >>
             \o (IF n_lines >= 3 THEN NonEmptyLines(split_in_two(subtitle, 2))
                 ELSE << TitleLine(subtitle, FALSE) >>)
        ELSE Let(IF n_lines >= 2
                 THEN NonEmptyLines(split_in_two(name, n_lines))
                 ELSE << TitleLine(name, FALSE) >>,
                 LAMBDA title_lines :
                    IF Len(title_lines) >= 4
                    THEN [i \in 1..Len(title_lines) |->
                            reduce_pixel(title_lines[i])]
                    ELSE title_lines)

has_top_icon(b) == b.top_icon

\* ------------------------------------------- updatePositions: the decision
\* number of ports of the bucket on one side
CountPorts(pl, port_type, alternate, port_mode) ==
    Cardinality({i \in 1..Len(pl) :
                    /\ pl[i].port_type = port_type
                    /\ pl[i].is_alternate = alternate
                    /\ pl[i].port_mode = port_mode})

\* port_types_aligner: (n_ins, n_outs) of the 8 buckets, in order
port_types_aligner(pl) ==
    [k \in 1..(2 * Len(PortTypes)) |->
        LET port_type == PortTypes[(k + 1) \div 2]
            alternate == Alternates[2 - (k % 2)]
        IN  << CountPorts(pl, port_type, alternate, "INPUT"),
               CountPorts(pl, port_type, alternate, "OUTPUT") >>]

\* the loop, a bucket with as many inputs as outputs forgetting the winner
RECURSIVE AlignFromForgetful(_, _, _)
AlignFromForgetful(aligner, k, winner) ==
    IF k > Len(aligner) THEN TRUE
    ELSE LET n_ins == aligner[k][1]
             n_outs == aligner[k][2]
         IN  IF \/ (winner = "INPUT" /\ n_outs > n_ins)
                \/ (winner = "OUTPUT" /\ n_ins > n_outs)
             THEN FALSE
             ELSE AlignFromForgetful(aligner, k + 1,
                                     IF n_ins > n_outs THEN "INPUT"
                                     ELSE IF n_outs > n_ins THEN "OUTPUT"
                                     ELSE "NULL")

\* the loop over port_types_aligner with its running winner
RECURSIVE AlignFrom(_, _, _)
AlignFrom(aligner, k, winner) ==
    IF k > Len(aligner) THEN TRUE
    ELSE LET n_ins == aligner[k][1]
             n_outs == aligner[k][2]
         IN  IF \/ (winner = "INPUT" /\ n_outs > n_ins)
                \/ (winner = "OUTPUT" /\ n_ins > n_outs)
             THEN FALSE
             ELSE AlignFrom(aligner, k + 1,
                            IF n_ins > n_outs THEN "INPUT"
                            ELSE IF n_outs > n_ins THEN "OUTPUT"
                            ELSE winner)

align_port_types(pl) == AlignFrom(port_types_aligner(pl), 1, "NULL")

\* ------------------------------------------ updatePositions: the Y pass
wrapped_port_pos == box_header_height + box_header_spacing

\* the Y a port is given for the cursor position pos
PortY(b, pos) ==
    IF b._wrapping
    THEN SY(pos) - (pos - wrapped_port_pos) * b._wrapping_ratio
    ELSE IF b._unwrapping
    THEN SY(wrapped_port_pos) + (pos - wrapped_port_pos) * b._wrapping_ratio
    ELSE IF b._wrapped THEN SY(wrapped_port_pos)
    ELSE SY(pos)

\* the Y a portgroup widget is given for the cursor position pos
PortGrpY(b, pos) ==
    IF b._wrapped THEN SY(wrapped_port_pos) ELSE SY(pos)

\* the state the passes thread through the ports
YPassInit(b) ==
    [last_in_pos |-> wrapped_port_pos, last_out_pos |-> wrapped_port_pos,
     final_last_in_pos |-> wrapped_port_pos,
     final_last_out_pos |-> wrapped_port_pos,
     last_in_type |-> PORT_TYPE_NULL, last_out_type |-> PORT_TYPE_NULL,
     last_in_alter |-> FALSE, last_out_alter |-> FALSE,
     max_in_width |-> 0, max_out_width |-> 0,
     portgrp_name |-> -1,
     pw |-> b.port_widget, gw |-> b.portgrp_widget,
     cursors |-> << >>]

\* lines 703-741: the print names and the size of one port
PortSize(b, st, port) ==
    LET k == PortGrpIndex(b.portgrp_list, port.portgrp_id)
    IN  IF port.portgrp_id # 0
        THEN IF k = 0
             THEN [st |-> st, size |-> 0]
             ELSE LET portgrp == b.portgrp_list[k]
                      gid == portgrp.portgrp_id
                      is_first == port.port_id = portgrp.port_id_list[1]
                      name1 == IF is_first THEN portgrp.name_w
                               ELSE st.portgrp_name
                      gtw1 == IF is_first
                              THEN (IF portgrp.name_w > 0
                                    THEN LimitedWidth(portgrp.name_w,
                                            max_port_width
                                            - port_in_portgrp_width - 5)
                                    ELSE 0)
                              ELSE st.gw[gid].tw
                      ptw == LimitedWidth(port.name_w, max_port_width \div 2)
                      gtw2 == IF gtw1 + 5 > max_port_width - ptw
                              THEN LimitedWidth(gtw1, max_port_width - ptw - 5)
                              ELSE gtw1
                  IN  [st |-> [st EXCEPT !.portgrp_name = name1,
                                         !.gw[gid].tw = gtw2,
                                         !.pw[port.port_id].tw = ptw],
                       size |-> gtw2 + Max(ptw + 6, port_in_portgrp_width)]
        ELSE LET ptw == LimitedWidth(port.name_w, max_port_width)
             IN  [st |-> [st EXCEPT !.pw[port.port_id].tw = ptw],
                  size |-> Max(ptw, 20)]

\* lines 743-820: one port of the bucket
PortPlace(b, st, size, port) ==
    LET pp == CanvasGetPortGroupPosition(b.portgrp_list, port.port_id,
                                         port.portgrp_id)
        first_of_portgrp == pp[1] = 0
        last_of_portgrp == pp[1] + 1 = pp[2]
        k == PortGrpIndex(b.portgrp_list, port.portgrp_id)
        new_type(last_type, last_alter) ==
            port.port_type # last_type \/ port.is_alternate # last_alter
        advance == IF last_of_portgrp THEN port_height + port_spacing
                   ELSE port_height
    IN  IF port.port_mode = "INPUT"
        THEN LET pos == IF new_type(st.last_in_type, st.last_in_alter)
                           /\ st.last_in_type # PORT_TYPE_NULL
                        THEN st.last_in_pos + port_spacingT
                        ELSE st.last_in_pos
                 gw1 == IF port.portgrp_id # 0 /\ first_of_portgrp /\ k # 0
                        THEN [st.gw EXCEPT
                                ![b.portgrp_list[k].portgrp_id].y =
                                    PortGrpY(b, pos)]
                        ELSE st.gw
             IN  [st EXCEPT
                    !.max_in_width = Max(st.max_in_width, size),
                    !.last_in_type = port.port_type,
                    !.last_in_alter = port.is_alternate,
                    !.pw[port.port_id].y = PortY(b, pos),
                    !.gw = gw1,
                    !.last_in_pos = pos + advance,
                    !.final_last_in_pos = pos + advance,
                    !.final_last_out_pos = st.last_out_pos]
        ELSE LET pos == IF new_type(st.last_out_type, st.last_out_alter)
                           /\ st.last_out_type # PORT_TYPE_NULL
                        THEN st.last_out_pos + port_spacingT
                        ELSE st.last_out_pos
                 gw1 == IF port.portgrp_id # 0 /\ first_of_portgrp /\ k # 0
                        THEN [st.gw EXCEPT
                                ![b.portgrp_list[k].portgrp_id].y =
                                    PortGrpY(b, pos)]
                        ELSE st.gw
             IN  [st EXCEPT
                    !.max_out_width = Max(st.max_out_width, size),
                    !.last_out_type = port.port_type,
                    !.last_out_alter = port.is_alternate,
                    !.pw[port.port_id].y = PortY(b, pos),
                    !.gw = gw1,
                    !.last_out_pos = pos + advance,
                    !.final_last_in_pos = st.last_in_pos,
                    !.final_last_out_pos = pos + advance]

PortStep(b, st0, port) ==
    Let(PortSize(b, st0, port),
        LAMBDA ps : PortPlace(b, ps.st, ps.size, port))

\* the ports of one (type, alternate) bucket, in port_list order
RECURSIVE BucketPorts(_, _, _, _, _)
BucketPorts(b, st, port_type, alternate, i) ==
    IF i > Len(b.port_list) THEN st
    ELSE LET port == b.port_list[i]
         IN  IF port.port_type # port_type \/ port.is_alternate # alternate
             THEN BucketPorts(b, st, port_type, alternate, i + 1)
             ELSE Let(PortStep(b, st, port),
                      LAMBDA st1 : BucketPorts(b, st1, port_type,
                                               alternate, i + 1))

\* the merge that moves the input cursor only
AlignMergeInputOnly(st) ==
    IF st.last_in_pos > st.last_out_pos
    THEN [st EXCEPT !.last_out_type = st.last_in_type,
                    !.last_out_alter = st.last_in_alter]
    ELSE [st EXCEPT !.last_in_type = st.last_out_type,
                    !.last_in_alter = st.last_out_alter,
                    !.last_in_pos = st.last_out_pos]

\* lines 822-830: the cursors of the two sides are merged after a bucket
AlignMerge(st) ==
    LET m == Max(st.last_in_pos, st.last_out_pos)
    IN  IF st.last_in_pos > st.last_out_pos
        THEN [st EXCEPT !.last_out_type = st.last_in_type,
                        !.last_out_alter = st.last_in_alter,
                        !.last_in_pos = m, !.last_out_pos = m]
        ELSE [st EXCEPT !.last_in_type = st.last_out_type,
                        !.last_in_alter = st.last_out_alter,
                        !.last_in_pos = m, !.last_out_pos = m]

\* the 8 buckets in order; cursors records both cursors after each bucket
RECURSIVE YPassFrom(_, _, _, _)
YPassFrom(b, st, k, align) ==
    IF k > 2 * Len(PortTypes) THEN st
    ELSE Let(BucketPorts(b, st, PortTypes[(k + 1) \div 2],
                         Alternates[2 - (k % 2)], 1),
         LAMBDA st1 :
         Let(IF align THEN AlignMerge(st1) ELSE st1,
         LAMBDA st2 :
         Let([st2 EXCEPT !.cursors =
                Append(st2.cursors, << st2.last_in_pos, st2.last_out_pos >>)],
         LAMBDA st3 : YPassFrom(b, st3, k + 1, align))))

YPass(b) ==
    Let(YPassInit(b), LAMBDA st :
    Let(align_port_types(b.port_list), LAMBDA align :
        YPassFrom(b, st, 1, align)))

\* ------------------------------------- updatePositions: width and title
\* lines 832-836: the width the ports ask for
PortsWidth(b, st) ==
    (IF b.m_plugin_inline # "DISABLED" THEN 100 ELSE 30)
    + st.max_in_width + st.max_out_width

MaxLineSize(title_lines) ==
    IF title_lines = << >> THEN 0
    ELSE CHOOSE m \in {title_lines[i].size : i \in 1..Len(title_lines)} :
            \A i \in 1..Len(title_lines) : title_lines[i].size <= m

\* lines 846-866: the template of a title of i lines
TitleTemplate(b, i) ==
    Let(MaxLineSize(splitTitle(b, i)), LAMBDA max_title_size :
        [title_width |-> max_title_size,
         header_width |->
            Max(IF b.m_plugin_inline # "DISABLED" THEN 200 ELSE 50,
                max_title_size + (IF has_top_icon(b) THEN 37 ELSE 16))])

\* lines 842-869: the loop stops after the first header narrower than the
\* ports; the templates it never reaches stay zero
RECURSIVE TemplatesFrom(_, _, _)
TemplatesFrom(b, p_width, i) ==
    IF i > 4 THEN << >>
    ELSE Let(TitleTemplate(b, i), LAMBDA t :
            << t >> \o (IF t.header_width < p_width
                        THEN [j \in 1..(4 - i) |->
                                [title_width |-> 0, header_width |-> 0]]
                        ELSE TemplatesFrom(b, p_width, i + 1)))

all_title_templates(b, p_width) == TemplatesFrom(b, p_width, 1)

\* lines 871-902: [lines_choice, more_height]
LinesChoice(tt, p_width, last_pos) ==
    IF tt[1].header_width <= p_width
    THEN [lines_choice |-> 1, more_height |-> 0]
    ELSE IF tt[2].header_width <= p_width
    THEN [lines_choice |-> 2, more_height |-> 0]
    ELSE LET area_2 == tt[2].header_width * last_pos
             area_3 == Max(p_width, tt[3].header_width) * (last_pos + 14)
             area_4 == Max(p_width, tt[4].header_width) * (last_pos + 14)
         IN  IF area_2 <= area_3
             THEN [lines_choice |-> 2, more_height |-> 0]
             ELSE IF tt[3].header_width <= p_width
             THEN [lines_choice |-> 3, more_height |-> 14]
             ELSE IF area_3 - area_4 >= 5000
             THEN [lines_choice |-> 4, more_height |-> 14]
             ELSE [lines_choice |-> 3, more_height |-> 14]

\* the width of the box taken from the ports alone
PortsWidthOnly(ports_width, header_width) == ports_width

\* line 910: the width of the box
FinalWidth(ports_width, header_width) == Max(ports_width, header_width)

\* ------------------------------------------ updatePositions: the X pass
CurrentPortMode(pl) == {pl[i].port_mode : i \in 1..Len(pl)}

\* the ports that are in no portgroup, all as wide as the input column
SoloXOneWidth(b, pw, inX, outX, max_in_width, max_out_width) ==
    [id \in DOMAIN pw |->
        LET i == CHOOSE i \in 1..Len(b.port_list) :
                            b.port_list[i].port_id = id
            port == b.port_list[i]
        IN  IF port.portgrp_id # 0 THEN pw[id]
            ELSE IF port.port_mode = "INPUT"
            THEN [pw[id] EXCEPT !.x = inX, !.width = max_in_width]
            ELSE [pw[id] EXCEPT !.x = outX, !.width = max_in_width]]

\* lines 934-943: the ports that are in no portgroup
SoloX(b, pw, inX, outX, max_in_width, max_out_width) ==
    [id \in DOMAIN pw |->
        LET i == CHOOSE i \in 1..Len(b.port_list) :
                            b.port_list[i].port_id = id
            port == b.port_list[i]
        IN  IF port.portgrp_id # 0 THEN pw[id]
            ELSE IF port.port_mode = "INPUT"
            THEN [pw[id] EXCEPT !.x = inX, !.width = max_in_width]
            ELSE [pw[id] EXCEPT !.x = outX, !.width = max_out_width]]

\* lines 959-972: the width of the ports of one portgroup
MaxPortInPgWidth(b, pw, portgrp, portgrp_name, acc) ==
    LET members == {j \in 1..Len(b.port_list) :
                        IndexIn(portgrp.port_id_list,
                                b.port_list[j].port_id) # 0}
        widths == {pw[b.port_list[j].port_id].tw + 4 : j \in members}
    IN  IF portgrp_name > 0 /\ widths # {}
        THEN Max(acc, CHOOSE w \in widths : \A v \in widths : v <= w)
        ELSE acc

\* one portgroup, its ports given the X and the width of its widget
GroupXAsWidget(b, xs, portgrp, p_width, outX) ==
    Let(MaxPortInPgWidth(b, xs.pw, portgrp, xs.portgrp_name,
                         port_in_portgrp_width),
    LAMBDA w :
        LET gid == portgrp.portgrp_id
            gx == IF portgrp.port_mode = "INPUT" THEN port_offset + 1
                  ELSE outX
            gwidth == IF portgrp.port_mode = "INPUT" THEN xs.max_in_width
                      ELSE xs.max_out_width
        IN  [xs EXCEPT
                !.gw = [xs.gw EXCEPT ![gid].width = gwidth, ![gid].x = gx,
                                     ![gid].ports_width = w],
                !.pw = [id \in DOMAIN xs.pw |->
                          IF IndexIn(portgrp.port_id_list, id) = 0
                          THEN xs.pw[id]
                          ELSE [xs.pw[id] EXCEPT !.width = gwidth,
                                                 !.x = gx]]])

\* lines 951-987: one portgroup and its ports
GroupX(b, xs, portgrp, p_width, outX) ==
    Let(MaxPortInPgWidth(b, xs.pw, portgrp, xs.portgrp_name,
                         port_in_portgrp_width),
    LAMBDA w :
        LET gid == portgrp.portgrp_id
            out_in_portgrpX == p_width - port_offset - 12 - w
        IN  [xs EXCEPT
                !.gw = [xs.gw EXCEPT
                          ![gid].width = IF portgrp.port_mode = "INPUT"
                                         THEN xs.max_in_width
                                         ELSE xs.max_out_width,
                          ![gid].x = IF portgrp.port_mode = "INPUT"
                                     THEN port_offset + 1 ELSE outX,
                          ![gid].ports_width = w],
                !.pw = [id \in DOMAIN xs.pw |->
                          IF IndexIn(portgrp.port_id_list, id) = 0
                          THEN xs.pw[id]
                          ELSE LET i == CHOOSE i \in 1..Len(b.port_list) :
                                            b.port_list[i].port_id = id
                               IN  [xs.pw[id] EXCEPT
                                      !.width = w,
                                      !.x = IF b.port_list[i].port_mode
                                               = "INPUT"
                                            THEN port_offset
                                            ELSE out_in_portgrpX]]])

\* lines 946-987: the portgroups, in canvas.portgrp_list order
RECURSIVE GroupsX(_, _, _, _, _, _)
GroupsX(b, xs, k, mode, p_width, outX) ==
    IF k > Len(b.portgrp_list) THEN xs
    ELSE LET portgrp == b.portgrp_list[k]
             gid == portgrp.portgrp_id
         IN  IF portgrp.port_mode \notin mode
             THEN GroupsX(b, xs, k + 1, mode, p_width, outX)
             ELSE Let(GroupX(b, xs, portgrp, p_width, outX),
                      LAMBDA xs1 : GroupsX(b, xs1, k + 1, mode, p_width,
                                           outX))

\* ---------------------------------------------- updatePositions: heights
\* lines 1020-1023
down_height ==
    SY(Max(port_spacing, port_spacingT) - port_spacing + box_pen_width)

\* the height, a wrapped box keeping the one it has
BoxHeightKept(b, normal_height, wrapped_height) ==
    IF b._wrapping
    THEN SY(normal_height)
         - (normal_height - wrapped_height) * b._wrapping_ratio
    ELSE IF b._unwrapping
    THEN SY(wrapped_height)
         + (normal_height - wrapped_height) * b._wrapping_ratio
    ELSE IF b._wrapped THEN b.geom.p_height
    ELSE SY(normal_height)

\* lines 998-1009: the height before down_height is added
BoxHeight(b, normal_height, wrapped_height) ==
    IF b._wrapping
    THEN SY(normal_height)
         - (normal_height - wrapped_height) * b._wrapping_ratio
    ELSE IF b._unwrapping
    THEN SY(wrapped_height)
         + (normal_height - wrapped_height) * b._wrapping_ratio
    ELSE IF b._wrapped THEN SY(wrapped_height)
    ELSE SY(normal_height)

\* lines 1011-1018
UnwrapTrianglePos(p_height, final_last_in_pos, final_last_out_pos) ==
    IF p_height >= SY(100)
    THEN IF final_last_out_pos > final_last_in_pos THEN "LEFT"
         ELSE IF final_last_in_pos > final_last_out_pos THEN "RIGHT"
         ELSE "CENTER"
    ELSE "NONE"

\* what a connection line computes its path from: where the port it ends
\* at is, and how wide the box is
LinePath(pw, p_width, port_id) ==
    << pw[port_id].x, pw[port_id].y, pw[port_id].width, p_width >>

\* repaintLines of a box that has not moved, not forced: no updateLinePos
repaintLinesUnforced(lines, pw, p_width) == lines

\* repaintLines(forced=True): updateLinePos of every registered line
repaintLines(lines, pw, p_width) ==
    [i \in 1..Len(lines) |->
        [lines[i] EXCEPT !.path = LinePath(pw, p_width, lines[i].port_id)]]

\* ------------------------------------------------ updatePositions: whole
\* lines 832-911: the width the ports ask for, the title templates, the
\* number of title lines and the width of the box
TitlePass(b, st) ==
    Let(PortsWidth(b, st), LAMBDA ports_width :
    Let(all_title_templates(b, ports_width), LAMBDA tt :
    Let(LinesChoice(tt, ports_width, Max(st.last_in_pos, st.last_out_pos)),
    LAMBDA lc :
        [ports_width |-> ports_width,
         lines_choice |-> lc.lines_choice,
         more_height |-> lc.more_height,
         title_lines |-> splitTitle(b, lc.lines_choice),
         p_width |-> FinalWidth(ports_width,
                                tt[lc.lines_choice].header_width)])))

\* lines 914-987: the ports go down by more_height, then the X pass
XPass(b, st, more_height, p_width, mode) ==
    Let([st EXCEPT
            !.pw = [id \in DOMAIN st.pw |->
                      [st.pw[id] EXCEPT !.y = @ + SY(more_height)]],
            !.gw = [gid \in DOMAIN st.gw |->
                      IF \E k \in 1..Len(b.portgrp_list) :
                            /\ b.portgrp_list[k].portgrp_id = gid
                            /\ b.portgrp_list[k].port_mode \in mode
                      THEN [st.gw[gid] EXCEPT !.y = @ + SY(more_height)]
                      ELSE st.gw[gid]]],
    LAMBDA down :
    Let([down EXCEPT
            !.pw = SoloX(b, down.pw, port_offset,
                         p_width - st.max_out_width - port_offset - 12,
                         st.max_in_width, st.max_out_width)],
    LAMBDA solo :
        GroupsX(b, solo, 1, mode, p_width,
                p_width - st.max_out_width - port_offset - 12)))

\* lines 989-1047: the heights, the unwrap triangle and the lines
\* the test without the scene position
SizeChangedOnly(b, p_width, p_height) ==
    \/ p_width # b.geom.p_ex_width
    \/ p_height # b.geom.p_ex_height

\* lines 1035-1037: the condition of canvas.scene.resize_the_scene()
SizeChanged(b, p_width, p_height) ==
    \/ p_width # b.geom.p_ex_width
    \/ p_height # b.geom.p_ex_height
    \/ b.geom.scenePos # b.geom.p_ex_scene_pos

SizePass(b, st, tp, xs, mode) ==
    LET last_in_pos == st.last_in_pos + tp.more_height
        last_out_pos == st.last_out_pos + tp.more_height
        normal_height == Max(last_in_pos, last_out_pos)
        wrapped_height == wrapped_port_pos + port_height
                          + (IF Len(tp.title_lines) >= 3 THEN 14 ELSE 0)
        p_header_height == box_header_height
                           + (IF Len(tp.title_lines) >= 3 THEN 14 ELSE 0)
        at_rest == ~b._wrapping /\ ~b._unwrapping /\ ~b._wrapped
    IN  Let(BoxHeight(b, normal_height, wrapped_height), LAMBDA height :
        [b EXCEPT
            !.port_widget = xs.pw,
            !.portgrp_widget = xs.gw,
            !.geom = [p_width |-> tp.p_width,
                      p_height |-> height + down_height,
                      p_header_height |-> p_header_height,
                      p_ex_width |-> tp.p_width,
                      p_ex_height |-> height + down_height,
                      scenePos |-> b.geom.scenePos,
                      p_ex_scene_pos |-> b.geom.scenePos,
                      p_wrapped_height |-> SY(wrapped_height) + down_height,
                      p_unwrapped_height |-> SY(normal_height) + down_height,
                      lines_choice |-> tp.lines_choice,
                      title_lines |-> tp.title_lines,
                      p_unwrap_triangle_pos |->
                          IF at_rest
                          THEN UnwrapTrianglePos(height,
                                                 st.final_last_in_pos,
                                                 st.final_last_out_pos)
                          ELSE b.geom.p_unwrap_triangle_pos,
                      m_current_port_mode |-> mode,
                      p_width_in |-> st.max_in_width,
                      p_width_out |-> st.max_out_width,
                      cursors |-> st.cursors,
                      align |-> align_port_types(b.port_list)],
            !.m_connection_lines =
                repaintLines(b.m_connection_lines, xs.pw, tp.p_width),
            !.n_recompute = @ + 1,
            !.n_resize = @ + (IF SizeChanged(b, tp.p_width,
                                             height + down_height)
                              THEN 1 ELSE 0)])

\* lines 626-1047, for a recompute that is not suppressed
Layout(b0) ==
    Let(b0, LAMBDA b :
    Let(YPass(b), LAMBDA st :
    Let(TitlePass(b, st), LAMBDA tp :
    Let(CurrentPortMode(b.port_list), LAMBDA mode :
    Let(XPass(b, st, tp.more_height, tp.p_width, mode), LAMBDA xs :
        SizePass(b, st, tp, xs, mode))))))

\* canvas.scene as updatePositions reads it: loading_items, and whether the
\* box is in move_boxes
SceneStates == {[loading_items |-> FALSE, in_move_boxes |-> FALSE],
                [loading_items |-> TRUE, in_move_boxes |-> FALSE],
                [loading_items |-> FALSE, in_move_boxes |-> TRUE]}

\* the scene when nothing is loading and no box is being moved
Idle == [loading_items |-> FALSE, in_move_boxes |-> FALSE]

\* whether the scene asks updatePositions(even_animated) to do nothing
Suppressed(even_animated, scene) ==
    scene.loading_items \/ (~even_animated /\ scene.in_move_boxes)

\* updatePositions that recomputes the boxes the scene is moving
updatePositionsOfMovedBoxes(b, even_animated, scene) ==
    IF scene.loading_items THEN b ELSE Layout(b)

\* updatePositions(even_animated): lines 616-624 return early
updatePositions(b, even_animated, scene) ==
    IF scene.loading_items THEN b
    ELSE IF ~even_animated /\ scene.in_move_boxes THEN b
    ELSE Layout(b)

\* ------------------------------------------------------------------ inputs
PortModes == {"INPUT", "OUTPUT"}
\* what addPortFromGroup is called with
AddTypes == {"AUDIO_JACK"}
AddAlternates == {FALSE}
PortNameWidths == {15}
\* the name widths of a portgroup (0: the group has no name)
PortGrpNameWidths == {30}
\* the names of the box
ShortName == << "A", "b" >>
LongName == << "A", "a", "a", "a", "a", "a", "a", "a", "-",
               "B", "b", "b", "b", "b", "b", "b", "b", "-",
               "C", "c", "c", "c", "c", "c", "c", "c" >>
GroupNames == {ShortName}
\* ratio, in sixteenths, of the ticks of the animation: those whose fourth
\* root and fourth power are multiples of 1/Den
TickRatios == {r \in 0..16 : \E k \in 0..16 : k * k * k * k = 4096 * r}
\* the ticks that start and end an animation
EndTicks == {0, 16}
\* options.auto_hide_groups
auto_hide_groups == TRUE

\* ratio ** 0.25 and ratio ** 4, in units of 1/Den
PowQuarter(r) == 4096 * (CHOOSE k \in 0..16 : k * k * k * k = 4096 * r)
Pow4(r) == r * r * r * r

\* ----------------------------------------------------------------- handlers
\* the handler op has run and left the box as b
Commit(b0) ==
    \E b \in {b0} :
    /\ port_list' = b.port_list
    /\ portgrp_list' = b.portgrp_list
    /\ port_widget' = b.port_widget
    /\ portgrp_widget' = b.portgrp_widget
    /\ m_group_name' = b.m_group_name
    /\ m_icon_type' = b.m_icon_type
    /\ top_icon' = b.top_icon
    /\ m_plugin_inline' = b.m_plugin_inline
    /\ _wrapped' = b._wrapped
    /\ _wrapping' = b._wrapping
    /\ _unwrapping' = b._unwrapping
    /\ _wrapping_ratio' = b._wrapping_ratio
    /\ box_visible' = b.box_visible
    /\ geom' = b.geom
    /\ m_connection_lines' = b.m_connection_lines
    /\ theme' = theme

NewPortId == Len(port_list) + 1

\* addPortFromGroup that leaves an empty box as it is, shown or not
addPortFromGroupAsIs(b, port_id, port_mode, port_type, name_w, is_alternate) ==
    [b EXCEPT
        !.port_widget = [id \in DOMAIN b.port_widget \cup {port_id} |->
                            IF id = port_id
                            THEN [visible |-> ~b._wrapped, x |-> 0, y |-> 0,
                                  width |-> 0, tw |-> name_w]
                            ELSE b.port_widget[id]],
        !.port_list = Append(b.port_list,
                             [port_id |-> port_id, port_mode |-> port_mode,
                              port_type |-> port_type,
                              is_alternate |-> is_alternate,
                              name_w |-> name_w, portgrp_id |-> 0])]

\* lines 377-392, and the caller's append to canvas.port_list
addPortFromGroup(b, port_id, port_mode, port_type, name_w, is_alternate) ==
    LET b1 == IF Len(b.port_list) = 0 /\ auto_hide_groups
              THEN [b EXCEPT !.box_visible = TRUE] ELSE b
        new_widget == [visible |-> ~b._wrapped, x |-> 0, y |-> 0,
                       width |-> 0, tw |-> name_w]
        port == [port_id |-> port_id, port_mode |-> port_mode,
                 port_type |-> port_type, is_alternate |-> is_alternate,
                 name_w |-> name_w, portgrp_id |-> 0]
    IN  [b1 EXCEPT
            !.port_widget = [id \in DOMAIN b.port_widget \cup {port_id} |->
                                IF id = port_id THEN new_widget
                                ELSE b.port_widget[id]],
            !.port_list = Append(b.port_list, port)]

AddPort ==
    /\ Len(port_list) < MaxPorts
    /\ \E port_mode \in PortModes, port_type \in AddTypes,
          name_w \in PortNameWidths, is_alternate \in AddAlternates :
            Commit(addPortFromGroup(Box, NewPortId, port_mode, port_type,
                                    name_w, is_alternate))
    /\ UNCHANGED << fn_in, fn_out >>

RECURSIVE WithoutPort(_, _)
WithoutPort(pl, port_id) ==
    IF pl = << >> THEN << >>
    ELSE IF Head(pl).port_id = port_id THEN Tail(pl)
    ELSE << Head(pl) >> \o WithoutPort(Tail(pl), port_id)

\* the removal without the test of line 395
removePortFromGroupUnguarded(b, port_id, scene) ==
    LET b1 == [b EXCEPT
                 !.port_list = WithoutPort(b.port_list, port_id),
                 !.port_widget = [id \in DOMAIN b.port_widget \ {port_id} |->
                                     b.port_widget[id]]]
    IN  IF Len(b1.port_list) > 0
        THEN updatePositions(b1, FALSE, scene)
        ELSE IF b1.box_visible /\ auto_hide_groups
        THEN [b1 EXCEPT !.box_visible = FALSE]
        ELSE b1

\* lines 394-409
removePortFromGroup(b, port_id, scene) ==
    IF port_id \in PortIdSet(b)
    THEN LET b1 == [b EXCEPT
                      !.port_list = WithoutPort(b.port_list, port_id),
                      !.port_widget = [id \in DOMAIN b.port_widget
                                                \ {port_id} |->
                                          b.port_widget[id]]]
         IN  IF Len(b1.port_list) > 0
             THEN updatePositions(b1, FALSE, scene)
             ELSE IF b1.box_visible /\ auto_hide_groups
             THEN [b1 EXCEPT !.box_visible = FALSE]
             ELSE b1
    ELSE b

\* a port is removed once its portgroup and its connections are; the
\* ports of a client leave in the reverse of the order they came in, and a
\* port that is not in the box may be asked for
CanRemove(port_id) ==
    /\ port_id >= Len(port_list)
    /\ \A i \in 1..Len(port_list) :
            port_list[i].port_id = port_id => port_list[i].portgrp_id = 0
    /\ \A i \in 1..Len(m_connection_lines) :
            m_connection_lines[i].port_id # port_id

RemovePort ==
    /\ \E port_id \in 1..MaxPorts, scene \in SceneStates :
        /\ CanRemove(port_id)
        /\ Commit(removePortFromGroup(Box, port_id, scene))
    /\ UNCHANGED << fn_in, fn_out >>

\* lines 411-418, and the caller's canvas.portgrp_list and port.portgrp_id
addPortGroupFromGroup(b, portgrp_id, port_mode, port_type, ids, name_w) ==
    LET new_widget == [visible |-> ~b._wrapped, x |-> 0, y |-> 0,
                       width |-> 0, ports_width |-> 0, tw |-> name_w]
        portgrp == [portgrp_id |-> portgrp_id, port_mode |-> port_mode,
                    port_type |-> port_type, port_id_list |-> ids,
                    name_w |-> name_w]
    IN  [b EXCEPT
            !.portgrp_list = Append(b.portgrp_list, portgrp),
            !.portgrp_widget =
                [g \in DOMAIN b.portgrp_widget \cup {portgrp_id} |->
                    IF g = portgrp_id THEN new_widget
                    ELSE b.portgrp_widget[g]],
            !.port_list =
                [i \in 1..Len(b.port_list) |->
                    IF IndexIn(ids, b.port_list[i].port_id) # 0
                    THEN [b.port_list[i] EXCEPT !.portgrp_id = portgrp_id]
                    ELSE b.port_list[i]]]

\* a portgroup is made of two ports that follow each other in the box, of
\* one mode and one type, in no portgroup yet
AddPortGroup ==
    /\ Len(portgrp_list) < MaxPortGroups
    /\ \E i \in 1..(Len(port_list) - 1), name_w \in PortGrpNameWidths :
        LET p == port_list[i]
            q == port_list[i + 1]
            portgrp_id == Len(portgrp_list) + 1
        IN  /\ p.port_mode = q.port_mode
            /\ p.port_type = q.port_type
            /\ p.is_alternate = q.is_alternate
            /\ p.portgrp_id = 0 /\ q.portgrp_id = 0
            /\ Commit(addPortGroupFromGroup(Box, portgrp_id, p.port_mode,
                                            p.port_type,
                                            << p.port_id, q.port_id >>,
                                            name_w))
    /\ UNCHANGED << fn_in, fn_out >>

\* lines 474-491, of a box that is not split
hide_ports_for_wrap(b, hide) ==
    [b EXCEPT
        !.portgrp_widget = [g \in DOMAIN b.portgrp_widget |->
                              [b.portgrp_widget[g] EXCEPT !.visible = ~hide]],
        !.port_widget = [id \in DOMAIN b.port_widget |->
                              [b.port_widget[id] EXCEPT !.visible = ~hide]],
        !.n_show = @ + (IF hide THEN 0 ELSE 1),
        !.n_hide = @ + (IF hide THEN 1 ELSE 0)]

\* set_wrapped that leaves the ports to be hidden when the wrap completes
set_wrapped_hiding_late(b, yesno, animate) ==
    IF yesno = b._wrapped THEN b
    ELSE IF ~animate THEN [b EXCEPT !._wrapped = yesno]
    ELSE [b EXCEPT !._wrapped = yesno,
                   !._wrapping = yesno, !._unwrapping = ~yesno]

\* lines 496-510; what follows moves the other boxes of the scene
set_wrapped(b, yesno, animate) ==
    IF yesno = b._wrapped THEN b
    ELSE LET b1 == [b EXCEPT !._wrapped = yesno]
             b2 == IF yesno THEN hide_ports_for_wrap(b1, TRUE) ELSE b1
         IN  IF ~animate THEN b2
             ELSE [b2 EXCEPT !._wrapping = yesno, !._unwrapping = ~yesno]

SetWrapped ==
    /\ \E yesno \in BOOLEAN, animate \in BOOLEAN :
        Commit(set_wrapped(Box, yesno, animate))
    /\ UNCHANGED << fn_in, fn_out >>

\* lines 456-472
animate_wrapping(b, ratio, scene) ==
    LET b1 == [b EXCEPT !._wrapping_ratio =
                    IF b._wrapping THEN PowQuarter(ratio) ELSE Pow4(ratio)]
        b2 == IF ratio = 16
              THEN [(IF b1._unwrapping THEN hide_ports_for_wrap(b1, FALSE)
                     ELSE b1)
                    EXCEPT !._wrapping = FALSE, !._unwrapping = FALSE]
              ELSE b1
    IN  updatePositions(b2, FALSE, scene)

AnimateWrapping ==
    /\ \E ratio \in EndTicks, scene \in SceneStates :
        Commit(animate_wrapping(Box, ratio, scene))
    /\ UNCHANGED << fn_in, fn_out >>

\* setGroupName that leaves the recompute to its caller
setGroupNameOnly(b, group_name, scene) ==
    [b EXCEPT !.m_group_name = group_name]

\* lines 369-371
setGroupName(b, group_name, scene) ==
    updatePositions([b EXCEPT !.m_group_name = group_name], FALSE, scene)

SetGroupName ==
    /\ \E group_name \in GroupNames, scene \in SceneStates :
        Commit(setGroupName(Box, group_name, scene))
    /\ UNCHANGED << fn_in, fn_out >>

\* lines 294-307, options.inline_displays being set
setAsPlugin(b, hasInlineDisplay) ==
    [b EXCEPT !.m_plugin_inline =
        IF hasInlineDisplay THEN "ENABLED" ELSE "DISABLED"]

SetAsPlugin ==
    /\ \E hasInlineDisplay \in BOOLEAN :
        Commit(setAsPlugin(Box, hasInlineDisplay))
    /\ UNCHANGED << fn_in, fn_out >>

\* a caller's updatePositions(even_animated)
UpdatePositions ==
    /\ \E even_animated \in BOOLEAN, scene \in SceneStates :
        Commit(updatePositions(Box, even_animated, scene))
    /\ UNCHANGED << fn_in, fn_out >>

\* lines 420-422; the new line has computed its path when it is registered
addLineFromGroup(b, connection_id, port_id) ==
    [b EXCEPT !.m_connection_lines =
        Append(@, [connection_id |-> connection_id, port_id |-> port_id,
                   path |-> LinePath(b.port_widget, b.geom.p_width,
                                     port_id)])]

\* a connection is made to a port of the box
AddLine ==
    /\ Len(m_connection_lines) < MaxLines
    /\ \E port_id \in PortIdSet(Box) :
        Commit(addLineFromGroup(Box, Len(m_connection_lines) + 1, port_id))
    /\ UNCHANGED << fn_in, fn_out >>

RECURSIVE WithoutLine(_, _)
WithoutLine(lines, connection_id) ==
    IF lines = << >> THEN << >>
    ELSE IF Head(lines).connection_id = connection_id THEN Tail(lines)
    ELSE << Head(lines) >> \o WithoutLine(Tail(lines), connection_id)

\* lines 424-429
removeLineFromGroup(b, connection_id) ==
    [b EXCEPT !.m_connection_lines = WithoutLine(@, connection_id)]

RemoveLine ==
    /\ \E connection_id \in 1..MaxLines :
        Commit(removeLineFromGroup(Box, connection_id))
    /\ UNCHANGED << fn_in, fn_out >>

\* --------------------------------------------------------- the box machine
\* lines 138-256: the box as its constructor leaves it, its first
\* updatePositions included
NewBox(group_name, icon_type, icon) ==
    Layout([port_list |-> << >>, portgrp_list |-> << >>,
            port_widget |-> << >>, portgrp_widget |-> << >>,
            m_group_name |-> group_name, m_icon_type |-> icon_type,
            top_icon |-> icon, m_plugin_inline |-> "DISABLED",
            _wrapped |-> FALSE, _wrapping |-> FALSE, _unwrapping |-> FALSE,
            _wrapping_ratio |-> Den,
            box_visible |-> ~auto_hide_groups,
            geom |-> [p_ex_width |-> 50,
                      p_ex_height |-> SY(box_header_height
                                         + box_header_spacing + 1),
                      scenePos |-> 0, p_ex_scene_pos |-> 0,
                      p_unwrap_triangle_pos |-> "NONE"],
            m_connection_lines |-> << >>,
            n_recompute |-> 0, n_resize |-> 0, n_show |-> 0, n_hide |-> 0])

\* the variables hold the box b0
Holds(b0) ==
    \E b \in {b0} :
    /\ port_list = b.port_list
    /\ portgrp_list = b.portgrp_list
    /\ port_widget = b.port_widget
    /\ portgrp_widget = b.portgrp_widget
    /\ m_group_name = b.m_group_name
    /\ m_icon_type = b.m_icon_type
    /\ top_icon = b.top_icon
    /\ m_plugin_inline = b.m_plugin_inline
    /\ _wrapped = b._wrapped
    /\ _wrapping = b._wrapping
    /\ _unwrapping = b._unwrapping
    /\ _wrapping_ratio = b._wrapping_ratio
    /\ box_visible = b.box_visible
    /\ geom = b.geom
    /\ m_connection_lines = b.m_connection_lines

Init ==
    /\ theme = DefaultTheme
    /\ fn_in = << >>
    /\ fn_out = << >>
    /\ \E group_name \in GroupNames :
        Holds(NewBox(group_name, "ICON_APPLICATION", TRUE))

Next ==
    \/ AddPort
    \/ RemovePort
    \/ AddPortGroup
    \/ SetWrapped
    \/ AnimateWrapping
    \/ SetGroupName
    \/ UpdatePositions
    \/ AddLine
    \/ RemoveLine

Spec == Init /\ [][Next]_vars

\* ------------------------------------------------- the layout on its own
\* most ports of a box whose layout is checked in SpecLayout
MaxLayoutPorts == 3

\* the (type, alternate) buckets the ports of SpecLayout come from
LayoutBuckets == {<< "AUDIO_JACK", FALSE >>, << "AUDIO_JACK", TRUE >>,
                  << "MIDI_JACK", FALSE >>}
LayoutNames == {ShortName, LongName}

\* the sequences of n ports, each << port_mode, port_type, is_alternate >>
RECURSIVE PortSeqs(_)
PortSeqs(n) ==
    IF n = 0 THEN {<< >>}
    ELSE {Append(s, << m, t[1], t[2] >>) :
            s \in PortSeqs(n - 1), m \in PortModes, t \in LayoutBuckets}

\* the place of a port in the order of a client that declares its ports
\* bucket by bucket, the inputs of a bucket first
KindRank(port) ==
    4 * IndexIn(PortTypes, port[2]) + (IF port[3] THEN 2 ELSE 0)
    + (IF port[1] = "OUTPUT" THEN 1 ELSE 0)

\* the ports a box of SpecLayout is made of: up to MaxLayoutPorts ports in
\* any order, or one more when they are declared in order
LayoutPortLists ==
    UNION {PortSeqs(n) : n \in 0..MaxLayoutPorts}
    \cup {s \in PortSeqs(MaxLayoutPorts + 1) :
            \A i \in 1..MaxLayoutPorts :
                KindRank(s[i]) <= KindRank(s[i + 1])}

\* the pixel width of the name of the port port_id
NameWidthOf(port_id) == 10 * port_id + 5

\* the client's ports arrive one by one: addPortFromGroup for each
RECURSIVE AddPorts(_, _)
AddPorts(b0, ports) ==
    Let(b0, LAMBDA b :
        IF ports = << >> THEN b
        ELSE AddPorts(addPortFromGroup(b, Len(b.port_list) + 1,
                                       Head(ports)[1], Head(ports)[2],
                                       NameWidthOf(Len(b.port_list) + 1),
                                       Head(ports)[3]),
                      Tail(ports)))

\* a box of any name under any theme, its ports just added
LayoutInit ==
    /\ theme \in Themes
    /\ fn_in = << >>
    /\ fn_out = << >>
    /\ \E group_name \in LayoutNames :
        \E ports \in LayoutPortLists :
            Holds(AddPorts(NewBox(group_name, "ICON_APPLICATION", TRUE),
                           ports))

\* the box is renamed, the scene being idle
SetAnyGroupName ==
    /\ \E group_name \in LayoutNames :
        Commit(setGroupName(Box, group_name, Idle))
    /\ UNCHANGED << fn_in, fn_out >>

\* a caller's updatePositions, the scene being idle
Recompute ==
    /\ \E even_animated \in BOOLEAN :
        Commit(updatePositions(Box, even_animated, Idle))
    /\ UNCHANGED << fn_in, fn_out >>

LayoutNext ==
    \/ Recompute
    \/ SetAnyGroupName
    \/ SetAsPlugin
    \/ AddPortGroup

SpecLayout == LayoutInit /\ [][LayoutNext]_vars

\* ------------------------------------- the wrap animation of larger boxes
\* boxes of MaxLayoutPorts audio ports, the portgroup of two of them below
\* another port of its column or alone in it
WrapPortLists ==
    {s \in PortSeqs(MaxLayoutPorts) :
        \A i \in 1..Len(s) : s[i][2] = "AUDIO_JACK" /\ ~s[i][3]}

WrapInit ==
    /\ theme = DefaultTheme
    /\ fn_in = << >>
    /\ fn_out = << >>
    /\ \E ports \in WrapPortLists :
        Holds(AddPorts(NewBox(ShortName, "ICON_APPLICATION", TRUE), ports))

WrapNext ==
    \/ AddPortGroup
    \/ SetWrapped
    \/ AnimateWrapping
    \/ Recompute

SpecWrap == WrapInit /\ [][WrapNext]_vars

\* --------------------------------------------- the box moved on the scene
\* the places of the scene a box is dragged to
ScenePositions == {0, 1, 2}

\* lines 1424-1442, mouse down: QGraphicsItem.mouseMoveEvent moves the box,
\* the lines follow it; the scene is resized outside any recompute
mouseMoveEvent(b, pos) ==
    [b EXCEPT !.geom.scenePos = pos,
              !.m_connection_lines =
                  repaintLines(@, b.port_widget, b.geom.p_width)]

MouseMove ==
    /\ \E pos \in ScenePositions : Commit(mouseMoveEvent(Box, pos))
    /\ UNCHANGED << fn_in, fn_out >>

ResizeNext ==
    \/ MouseMove
    \/ AddPort
    \/ SetWrapped
    \/ AnimateWrapping
    \/ SetGroupName
    \/ UpdatePositions

SpecResize == Init /\ [][ResizeNext]_vars

\* ------------------------------------------------ split_in_two on its own
SplitAlphabet == {"a", "B", "1", " ", "-", "_"}

RECURSIVE StringsOfLen(_)
StringsOfLen(n) ==
    IF n = 0 THEN {<< >>}
    ELSE {Append(s, c) : s \in StringsOfLen(n - 1), c \in SplitAlphabet}

\* strings one character longer, over fewer characters
LongSplitAlphabet == {"a", "B", " "}

RECURSIVE LongStringsOfLen(_)
LongStringsOfLen(n) ==
    IF n = 0 THEN {<< >>}
    ELSE {Append(s, c) : s \in LongStringsOfLen(n - 1),
                         c \in LongSplitAlphabet}

SplitStrings ==
    UNION {StringsOfLen(n) : n \in 0..MaxStrLen}
    \cup LongStringsOfLen(MaxStrLen + 1)

\* a call of split_in_two that has not returned yet
SplitInit ==
    /\ theme = DefaultTheme
    /\ Holds(NewBox(ShortName, "ICON_APPLICATION", TRUE))
    /\ \E string \in SplitStrings :
        \E n_lines \in 2..4 :
            fn_in = [string |-> string, n_lines |-> n_lines]
    /\ fn_out = [done |-> FALSE, value |-> << >>]

SplitInTwo ==
    /\ ~fn_out.done
    /\ fn_out' = [done |-> TRUE,
                  value |-> split_in_two(fn_in.string, fn_in.n_lines)]
    /\ UNCHANGED << port_list, portgrp_list, port_widget, portgrp_widget,
                    m_group_name, m_icon_type, top_icon, m_plugin_inline,
                    _wrapped, _wrapping, _unwrapping, _wrapping_ratio,
                    box_visible, geom, m_connection_lines, fn_in, theme >>

SplitNext == SplitInTwo

SpecSplit == SplitInit /\ [][SplitNext]_vars

\* --------------------------------------------------------- the drag lines
\* coordinates of a drag line are held in units of 1/LineScale pixel, which
\* keeps phi (0.62, 0.75), the halves and the divisions by (length - 1)
\* exact for the lengths up to MaxGroupLen + 1
LineScale == 2400

\* integer quotient, the divisor being of either sign
Quot(a, b) == IF b < 0 THEN (0 - a) \div (0 - b) ELSE a \div b

\* phi of a group of more than two ports, for every length
PhiOfLargeGroup(len) == (75 * LineScale) \div 100

\* phi and phito
Phi(len) == IF len > 2 THEN (75 * LineScale) \div 100
            ELSE (62 * LineScale) \div 100

first_y(len) == port_height * Phi(len)
last_y(len) == port_height * (len * LineScale - Phi(len))

\* canvaslinemov.py 97-111, canvasbezierlinemov.py 114-122 and 134-138:
\* the Y of the source end; the portgroup branch divides unguarded
SourceY(line) ==
    LET len == line.m_portgrp_len_from
        pos == line.m_port_pos_from
    IN  IF line.parent_type = "CanvasPortType"
        THEN IF len > 1
             THEN [error |-> "none",
                   y |-> first_y(len)
                         + pos * Quot(last_y(len) - first_y(len), len - 1)
                         - port_height * pos * LineScale]
             ELSE [error |-> "none", y |-> (port_height * LineScale) \div 2]
        ELSE IF len - 1 = 0
             THEN [error |-> "ZeroDivisionError", y |-> 0]
             ELSE [error |-> "none",
                   y |-> first_y(len)
                         + pos * Quot(last_y(len) - first_y(len), len - 1)]

\* canvaslinemov.py 113-120, canvasbezierlinemov.py 124-132 and 146-152
DestOffset(line) ==
    LET len == line.m_portgrp_len_dest
        pos == line.m_port_pos_dest
    IN  IF len = 1 THEN 0
        ELSE first_y(len)
             + pos * Quot(last_y(len) - first_y(len), len - 1)
             - (last_y(len) - first_y(len)) \div 2
             - port_height * Phi(len)

\* CanvasLineMov.updateLinePos(scenePos); cursor is scenePos relative to
\* (p_lineX, p_lineY)
CanvasLineMov_updateLinePos(line, old, cursor) ==
    IF line.m_port_mode \notin {"INPUT", "OUTPUT"} THEN old
    ELSE Let(SourceY(line), LAMBDA src :
         IF src.error # "none" THEN [old EXCEPT !.error = src.error]
         ELSE [error |-> "none",
               path |-> << << IF line.m_port_mode = "INPUT" THEN 0
                              ELSE (line.p_width + 12) * LineScale,
                              src.y >>,
                           << cursor[1] * LineScale,
                              cursor[2] * LineScale + DestOffset(line) >> >>])

\* new_y for a portgroup parent, the curve ending at the cursor itself
\* while the destination is the source
BezierGroupNewYAtCursor(line, old_y) ==
    IF line.m_portgrp_len_dest = 1 THEN 0
    ELSE IF /\ line.m_port_pos_dest = line.m_port_pos_from
            /\ line.m_portgrp_len_from = line.m_portgrp_len_dest
    THEN 0
    ELSE DestOffset(line)

\* canvasbezierlinemov.py 140-152: new_y for a portgroup parent
BezierGroupNewY(line, old_y) ==
    IF line.m_portgrp_len_dest = 1 THEN 0
    ELSE IF /\ line.m_port_pos_dest = line.m_port_pos_from
            /\ line.m_portgrp_len_from = line.m_portgrp_len_dest
    THEN old_y
         - (last_y(line.m_portgrp_len_from)
            - first_y(line.m_portgrp_len_from)) \div 2
         - port_height * Phi(line.m_portgrp_len_from)
    ELSE DestOffset(line)

\* the cubic with its control points set off from the midpoint of the ends
BezierPathFromMidpoint(port_mode, p_width, old_y, final_x, final_y) ==
    LET old_x == IF port_mode = "OUTPUT" THEN (p_width + 12) * LineScale
                 ELSE 0
        mid == (old_x + final_x) \div 2
        diffxy == Abs(final_y - old_y) - Abs(final_x - old_x)
        more == IF diffxy > 0 THEN Abs(diffxy) ELSE 0
    IN  IF port_mode = "OUTPUT"
        THEN << << old_x, old_y >>, << mid + more, old_y >>,
                << mid - more, final_y >>, << final_x, final_y >> >>
        ELSE << << old_x, old_y >>, << mid - more, old_y >>,
                << mid + more, final_y >>, << final_x, final_y >> >>

\* canvasbezierlinemov.py 157-183: the cubic from the source to the cursor
BezierPath(port_mode, p_width, old_y, final_x, final_y) ==
    LET old_x == IF port_mode = "OUTPUT" THEN (p_width + 12) * LineScale
                 ELSE 0
        mid_x == Abs(final_x - old_x) \div 2
        diffxy == Abs(final_y - old_y) - Abs(final_x - old_x)
        more == IF diffxy > 0 THEN Abs(diffxy) ELSE 0
    IN  IF port_mode = "OUTPUT"
        THEN << << old_x, old_y >>,
                << old_x + mid_x + more, old_y >>,
                << final_x - mid_x - more, final_y >>,
                << final_x, final_y >> >>
        ELSE << << old_x, old_y >>,
                << old_x - mid_x - more, old_y >>,
                << final_x + mid_x + more, final_y >>,
                << final_x, final_y >> >>

\* CanvasBezierLineMov.updateLinePos(scenePos)
CanvasBezierLineMov_updateLinePos(line, old, cursor) ==
    Let(SourceY(line), LAMBDA src :
        IF src.error # "none" THEN [old EXCEPT !.error = src.error]
        ELSE IF line.m_port_mode \notin {"INPUT", "OUTPUT"} THEN old
        ELSE [error |-> "none",
              path |-> BezierPath(line.m_port_mode, line.p_width, src.y,
                          cursor[1] * LineScale,
                          cursor[2] * LineScale
                          + (IF line.parent_type = "CanvasPortType"
                             THEN DestOffset(line)
                             ELSE BezierGroupNewY(line, src.y)))])

\* longest group a drag line starts from or hovers
MaxGroupLen == 3

LineClasses == {"CanvasLineMov", "CanvasBezierLineMov"}
LinePortModes == {"INPUT", "OUTPUT", "NULL"}
ParentTypes == {"CanvasPortType", "CanvasPortGroupType"}
\* (position, length) of a port in its group
GroupPositions ==
    {<< pos, len >> \in (0..MaxGroupLen) \X (0..MaxGroupLen) :
        pos < Max(len, 1)}
\* scenePos relative to the line's parent, in pixels
Cursors == {-30, 0, 50} \X {-40, 0, 10}
LinePortWidths == {20}

\* __init__ of the two classes: the destination starts as the source
NewLine(class, port_mode, port_pos, portgrp_len, parent_type, width) ==
    [class |-> class, m_port_mode |-> port_mode, parent_type |-> parent_type,
     m_port_pos_from |-> port_pos, m_portgrp_len_from |-> portgrp_len,
     m_port_pos_dest |-> port_pos, m_portgrp_len_dest |-> portgrp_len,
     p_width |-> width]

\* a drag line as constructed, no path set yet
LineInit ==
    /\ theme = DefaultTheme
    /\ Holds(NewBox(ShortName, "ICON_APPLICATION", TRUE))
    /\ \E class \in LineClasses, port_mode \in LinePortModes,
          parent_type \in ParentTypes, pl \in GroupPositions,
          width \in LinePortWidths :
        fn_in = NewLine(class, port_mode, pl[1], pl[2], parent_type, width)
    /\ fn_out = [error |-> "none", path |-> << >>]

BoxUnchanged ==
    UNCHANGED << port_list, portgrp_list, port_widget, portgrp_widget,
                 m_group_name, m_icon_type, top_icon, m_plugin_inline,
                 _wrapped, _wrapping, _unwrapping, _wrapping_ratio,
                 box_visible, geom, m_connection_lines, theme >>

\* setDestinationPortGroupPosition(port_pos, portgrp_len), of both classes
setDestinationPortGroupPosition(line, port_pos, portgrp_len) ==
    [line EXCEPT !.m_port_pos_dest = port_pos,
                 !.m_portgrp_len_dest = portgrp_len]

SetDestinationPortGroupPosition ==
    /\ fn_out.error = "none"
    /\ \E pl \in GroupPositions :
        fn_in' = setDestinationPortGroupPosition(fn_in, pl[1], pl[2])
    /\ UNCHANGED fn_out
    /\ BoxUnchanged

LineMovUpdateLinePos ==
    /\ fn_in.class = "CanvasLineMov"
    /\ fn_out.error = "none"
    /\ \E cursor \in Cursors :
        fn_out' = CanvasLineMov_updateLinePos(fn_in, fn_out, cursor)
    /\ UNCHANGED fn_in
    /\ BoxUnchanged

BezierUpdateLinePos ==
    /\ fn_in.class = "CanvasBezierLineMov"
    /\ fn_out.error = "none"
    /\ \E cursor \in Cursors :
        fn_out' = CanvasBezierLineMov_updateLinePos(fn_in, fn_out, cursor)
    /\ UNCHANGED fn_in
    /\ BoxUnchanged

LineNext ==
    \/ SetDestinationPortGroupPosition
    \/ LineMovUpdateLinePos
    \/ BezierUpdateLinePos

SpecLine == LineInit /\ [][LineNext]_vars

\* -------------------------------------------------------------- properties

AllHidden(b) ==
    /\ \A id \in DOMAIN b.port_widget : ~b.port_widget[id].visible
    /\ \A g \in DOMAIN b.portgrp_widget : ~b.portgrp_widget[g].visible

SameVisibility(a, b) ==
    /\ \A id \in DOMAIN a.port_widget :
            a.port_widget[id].visible = b.port_widget[id].visible
    /\ \A g \in DOMAIN a.portgrp_widget :
            a.portgrp_widget[g].visible = b.portgrp_widget[g].visible

AtRest(b) == ~b._wrapping /\ ~b._unwrapping

\* every line of b has its path computed from where its port is now
LinesFresh(b) ==
    \A i \in 1..Len(b.m_connection_lines) :
        b.m_connection_lines[i].path
            = LinePath(b.port_widget, b.geom.p_width,
                       b.m_connection_lines[i].port_id)

\* the positions, the sizes and the line paths of b are those a recompute
\* gives it
LaidOut(b) ==
    /\ LinesFresh(b)
    /\ \E r \in {Layout(b)} :
        /\ r.port_widget = b.port_widget
        /\ r.portgrp_widget = b.portgrp_widget
        /\ r.geom = b.geom

\* the handler has run one recompute and left b laid out
Recomputed(b) == b.n_recompute = 1 /\ LaidOut(b)

\* the Y of a collapsed box's ports
CollapsedY(b) ==
    SY(wrapped_port_pos + (IF b.geom.lines_choice >= 3 THEN 14 ELSE 0))

\* how far the port is from the collapsed Y
Dist(b, id) == Abs(b.port_widget[id].y - CollapsedY(b))

\* C1 as stated: between two operations the box is never left with its
\* positions, its size or its line paths not recomputed.
C1_AlwaysLaidOut == LaidOut(Box)

\* C1, amended: animate_wrapping and setGroupName, and removePortFromGroup
\* of a port of the box that is not its last, run one recompute before they
\* return, which unless the scene suppresses it leaves every position, size
\* and line path up to date; addPortFromGroup, set_wrapped and the removal
\* of the last port or of an unknown port run none.
C1_RecomputeWhereCalled ==
    /\ \A ratio \in TickRatios :
        Recomputed(animate_wrapping(Box, ratio, Idle))
    /\ \A group_name \in GroupNames :
        Recomputed(setGroupName(Box, group_name, Idle))
    /\ \A port_id \in 1..MaxPorts :
        CanRemove(port_id) =>
            \E r \in {removePortFromGroup(Box, port_id, Idle)} :
                IF port_id \in PortIdSet(Box) /\ Len(port_list) > 1
                THEN Recomputed(r)
                ELSE r.n_recompute = 0
    /\ \A scene \in SceneStates \ {Idle} :
        /\ animate_wrapping(Box, 16, scene).n_recompute = 0
        /\ setGroupName(Box, m_group_name, scene).n_recompute = 0
    /\ \A yesno \in BOOLEAN, animate \in BOOLEAN :
        set_wrapped(Box, yesno, animate).n_recompute = 0
    /\ \A port_mode \in PortModes :
        addPortFromGroup(Box, NewPortId, port_mode, "AUDIO_JACK", 15,
                         FALSE).n_recompute = 0

\* a box with a port and a line on it that a recompute has laid out
C1_Witness ==
    /\ Len(port_list) >= 1
    /\ Len(m_connection_lines) >= 1
    /\ \A id \in DOMAIN port_widget : port_widget[id].width > 0
    /\ LaidOut(Box)

\* C2 as stated: animate_wrapping(1.0) on an unwrapping box leaves it fully
\* unwrapped and restores the visibility once; no tick below 1.0 restores
\* it, nor does animate_wrapping(1.0) on a box at rest.
C2_UnwrapCompletes ==
    \A scene \in SceneStates :
        /\ _unwrapping =>
            \E r \in {animate_wrapping(Box, 16, scene)} :
                /\ ~r._wrapped /\ ~r._wrapping /\ ~r._unwrapping
                /\ r.n_show = 1
        /\ \A ratio \in TickRatios \ {16} :
                animate_wrapping(Box, ratio, scene).n_show = 0
        /\ AtRest(Box) => animate_wrapping(Box, 16, scene).n_show = 0

C4_WrappedHidden ==
    (_wrapped /\ AtRest(Box)) =>
        /\ AllHidden(Box)
        /\ \E r \in {Layout(Box)} :
            \A id \in DOMAIN r.port_widget : r.port_widget[id].y = CollapsedY(r)

\* C5 as stated: set_wrapped with the opposite value during an animation
\* swaps _wrapping and _unwrapping and keeps _wrapping_ratio, and the
\* recompute after it gives every port the Y of the recompute before it.
C5_SmoothReversal ==
    (_wrapping \/ _unwrapping) =>
        \E before \in {Layout(Box)} :
        \E after \in {Layout(set_wrapped(before, ~before._wrapped, TRUE))} :
            /\ after._wrapping = before._unwrapping
            /\ after._unwrapping = before._wrapping
            /\ after._wrapping_ratio = before._wrapping_ratio
            /\ \A id \in DOMAIN before.port_widget :
                after.port_widget[id].y = before.port_widget[id].y

\* C6 as stated: from set_wrapped(True, animate=True) on an unwrapped box
\* that is laid out, through a recompute and ticks that do not decrease, no
\* port moves away from the collapsed Y, and the tick at 1.0 puts every
\* port on it.
C6_WrapMonotone ==
    (~_wrapped /\ AtRest(Box) /\ LaidOut(Box)) =>
        \E b1 \in {Layout(set_wrapped(Box, TRUE, TRUE))} :
        \A r1 \in TickRatios, r2 \in TickRatios :
            r1 <= r2 =>
                \E b2 \in {animate_wrapping(b1, r1, Idle)} :
                \E b3 \in {animate_wrapping(b2, r2, Idle)} :
                \E b4 \in {animate_wrapping(b3, 16, Idle)} :
                    \A id \in DOMAIN port_widget :
                        /\ Dist(b1, id) <= Dist(Box, id)
                        /\ Dist(b2, id) <= Dist(b1, id)
                        /\ Dist(b3, id) <= Dist(b2, id)
                        /\ Dist(b4, id) = 0

\* C7: computing a drag line's endpoints never divides by zero, whatever
\* the group lengths, the parent item and the port mode
C7_NeverDividesByZero == fn_out.error = "none"

\* index in pl of the first port of the bucket on the side port_mode, or 0
FirstOf(pl, port_type, alternate, port_mode) ==
    LET S == {i \in 1..Len(pl) : /\ pl[i].port_type = port_type
                                  /\ pl[i].is_alternate = alternate
                                  /\ pl[i].port_mode = port_mode}
    IN  IF S = {} THEN 0 ELSE CHOOSE i \in S : \A j \in S : i <= j

\* the base margin of the ports area
BaseMargin(b) == IF b.m_plugin_inline # "DISABLED" THEN 100 ELSE 30

\* what the ports ask of the width of the laid out box r, and what the
\* title of the chosen number of lines asks
PortsRequirement(r) ==
    BaseMargin(r) + r.geom.p_width_in + r.geom.p_width_out
HeaderRequirement(r) == TitleTemplate(r, r.geom.lines_choice).header_width

\* C8: after every completed recompute the width of the box is at least
\* the base margin plus the widest input plus the widest output, at least
\* the header width of the chosen title line count, and equal to the
\* greater of the two
C8_WidthIsMax ==
    \E r \in {updatePositions(Box, TRUE, Idle)} :
        /\ r.n_recompute = 1
        /\ r.geom.p_width >= PortsRequirement(r)
        /\ r.geom.p_width >= HeaderRequirement(r)
        /\ r.geom.p_width \in {PortsRequirement(r), HeaderRequirement(r)}

\* a laid out box with inline display and ports on both sides, whose
\* title asks for more width than its ports
C8_Witness ==
    /\ LaidOut(Box)
    /\ m_plugin_inline # "DISABLED"
    /\ geom.m_current_port_mode = {"INPUT", "OUTPUT"}
    /\ geom.p_width = HeaderRequirement(Box)
    /\ HeaderRequirement(Box) > PortsRequirement(Box)

\* the (type, alternate) buckets, in the order of the Y pass
Buckets ==
    [k \in 1..(2 * Len(PortTypes)) |->
        << PortTypes[(k + 1) \div 2], Alternates[2 - (k % 2)] >>]

\* C9: when the alignment decision enables type alignment, the two Y
\* cursors are equal after each (type, alternate) bucket, and in every
\* bucket with ports on both sides the first input port and the first
\* output port are given the same Y
C9_AlignedBuckets ==
    \E r \in {updatePositions(Box, TRUE, Idle)} :
        align_port_types(r.port_list) =>
            \A k \in 1..Len(Buckets) :
                /\ r.geom.cursors[k][1] = r.geom.cursors[k][2]
                /\ \E i \in {FirstOf(r.port_list, Buckets[k][1],
                                     Buckets[k][2], "INPUT")},
                      o \in {FirstOf(r.port_list, Buckets[k][1],
                                     Buckets[k][2], "OUTPUT")} :
                    (i # 0 /\ o # 0) =>
                        r.port_widget[r.port_list[i].port_id].y
                        = r.port_widget[r.port_list[o].port_id].y

\* a laid out box whose alignment is enabled, with a bucket of ports on
\* both sides that follows a bucket of ports on one side only
C9_Witness ==
    /\ LaidOut(Box)
    /\ align_port_types(port_list)
    /\ \E k \in 2..Len(Buckets) :
        /\ FirstOf(port_list, Buckets[k][1], Buckets[k][2], "INPUT") # 0
        /\ FirstOf(port_list, Buckets[k][1], Buckets[k][2], "OUTPUT") # 0
        /\ port_widget[port_list[FirstOf(port_list, Buckets[k][1],
                                         Buckets[k][2], "INPUT")].port_id].y
           = port_widget[port_list[FirstOf(port_list, Buckets[k][1],
                                           Buckets[k][2], "OUTPUT")].port_id].y
        /\ \E j \in 1..(k - 1) :
            port_types_aligner(port_list)[j][1]
            # port_types_aligner(port_list)[j][2]

\* C10: split_in_two(string, n) returns exactly n strings
C10_ExactlyN ==
    fn_out.done => Len(fn_out.value) = fn_in.n_lines

\* more separators than lines: the branch that chooses the best indexes,
\* here with a part left empty
C10_Witness ==
    /\ fn_out.done
    /\ fn_in.n_lines = 4
    /\ Len(IndexesOf(fn_in.string, ChosenSep(fn_in.string))) > 4
    /\ \E i \in 1..Len(fn_out.value) : fn_out.value[i] = << >>

\* the first m strings of parts, joined by joiner
RECURSIVE JoinFirst(_, _, _)
JoinFirst(parts, m, joiner) ==
    IF m = 0 THEN << >>
    ELSE IF m = 1 THEN parts[1]
    ELSE JoinFirst(parts, m - 1, joiner) \o joiner \o parts[m]

\* C11: the strings returned by split_in_two(string, n), taken in order
\* and joined by the removed space (space split) or directly (hyphen,
\* underscore, capital split), give back the string; the strings after
\* the last slice are the empty padding
C11_Reconstructs ==
    fn_out.done =>
        \E m \in 1..Len(fn_out.value) :
            /\ JoinFirst(fn_out.value, m,
                         IF ChosenSep(fn_in.string) = " "
                         THEN << " " >> ELSE << >>) = fn_in.string
            /\ \A i \in (m + 1)..Len(fn_out.value) : fn_out.value[i] = << >>

ConnectionIdSet(b) ==
    {b.m_connection_lines[i].connection_id :
        i \in 1..Len(b.m_connection_lines)}

\* C12: removePortFromGroup of a port_id that is not in the box's port
\* list, and removeLineFromGroup of a connection_id that is not registered
\* on the box, change nothing: the port list, the line list, the
\* visibility, the wrap flags and every assigned position and size stay,
\* and no recompute is run.
C12_UnknownRemovalIsNoOp ==
    /\ \A port_id \in (1..(MaxPorts + 1)) \ PortIdSet(Box) :
        \A scene \in SceneStates :
            removePortFromGroup(Box, port_id, scene) = Box
    /\ \A connection_id \in (1..(MaxLines + 1)) \ ConnectionIdSet(Box) :
        removeLineFromGroup(Box, connection_id) = Box

\* a wrapped box with a port and a line on it, whose positions a recompute
\* would change, asked to remove a port and a line it does not have
C12_Witness ==
    /\ Len(port_list) >= 1
    /\ Len(m_connection_lines) >= 1
    /\ _wrapped
    /\ ~LaidOut(Box)
    /\ removePortFromGroup(Box, Len(port_list) + 1, Idle) = Box
    /\ removeLineFromGroup(Box, Len(m_connection_lines) + 1) = Box

\* C13: a recompute calls canvas.scene.resize_the_scene() if and only if
\* the box's width, height or scene position differs from the recorded
\* p_ex_width, p_ex_height, p_ex_scene_pos, and it leaves the recorded
\* values equal to the current ones; between recomputes the recorded width
\* and height stay those of the box.
C13_ResizeIffChanged ==
    /\ geom.p_ex_width = geom.p_width
    /\ geom.p_ex_height = geom.p_height
    /\ \A even_animated \in BOOLEAN, scene \in SceneStates :
        \E r \in {updatePositions(Box, even_animated, scene)} :
            r.n_recompute = 1 =>
                /\ r.n_resize = 1 <=>
                        \/ r.geom.p_width # geom.p_width
                        \/ r.geom.p_height # geom.p_height
                        \/ geom.scenePos # geom.p_ex_scene_pos
                /\ r.n_resize \in {0, 1}
                /\ r.geom.p_ex_width = r.geom.p_width
                /\ r.geom.p_ex_height = r.geom.p_height
                /\ r.geom.p_ex_scene_pos = r.geom.scenePos
                /\ r.geom.scenePos = geom.scenePos

\* a box with a port that was moved since its last recompute and whose
\* size the next recompute keeps: the notifier is called for the position
C13_Witness ==
    /\ Len(port_list) >= 1
    /\ geom.scenePos # geom.p_ex_scene_pos
    /\ \E r \in {updatePositions(Box, FALSE, Idle)} :
        /\ r.n_recompute = 1
        /\ r.n_resize = 1
        /\ r.geom.p_width = geom.p_width
        /\ r.geom.p_height = geom.p_height

\* the two boxes have the same port and portgroup X, Y and width, the same
\* width, height and header height, the same number of title lines and
\* the same unwrap triangle position
SameLayout(a, b) ==
    /\ DOMAIN a.port_widget = DOMAIN b.port_widget
    /\ \A id \in DOMAIN a.port_widget :
        /\ a.port_widget[id].x = b.port_widget[id].x
        /\ a.port_widget[id].y = b.port_widget[id].y
        /\ a.port_widget[id].width = b.port_widget[id].width
    /\ DOMAIN a.portgrp_widget = DOMAIN b.portgrp_widget
    /\ \A g \in DOMAIN a.portgrp_widget :
        /\ a.portgrp_widget[g].x = b.portgrp_widget[g].x
        /\ a.portgrp_widget[g].y = b.portgrp_widget[g].y
        /\ a.portgrp_widget[g].width = b.portgrp_widget[g].width
    /\ a.geom.p_width = b.geom.p_width
    /\ a.geom.p_height = b.geom.p_height
    /\ a.geom.p_header_height = b.geom.p_header_height
    /\ Len(a.geom.title_lines) = Len(b.geom.title_lines)
    /\ a.geom.lines_choice = b.geom.lines_choice
    /\ a.geom.p_unwrap_triangle_pos = b.geom.p_unwrap_triangle_pos

\* C14: updatePositions run a second time, with no change in between to
\* the ports, the portgroups, the label, the wrap flags or the animation
\* ratio, leaves every port and portgroup X, Y and width, and the box's
\* width, height, header height, title line count and unwrap triangle
\* position as the first run left them; the second run resizes nothing.
C14_Idempotent ==
    \A even_animated \in BOOLEAN :
        \E r \in {updatePositions(Box, TRUE, Idle)} :
            \E rr \in {updatePositions(r, even_animated, Idle)} :
                /\ SameLayout(r, rr)
                /\ rr.n_resize = r.n_resize
                /\ rr.m_connection_lines = r.m_connection_lines

\* a wrapped box with a portgroup whose positions are stale: the first
\* recompute moves its widgets, the second moves nothing
C14_Witness ==
    /\ Len(portgrp_list) >= 1
    /\ _wrapped
    /\ AtRest(Box)
    /\ \E r \in {updatePositions(Box, TRUE, Idle)} :
        /\ ~SameLayout(Box, r)
        /\ r.n_recompute = 1
        /\ SameLayout(r, updatePositions(r, TRUE, Idle))

\* the sides that some bucket of the port list has strictly more ports on
FavouredSides(pl) ==
    {side \in {"INPUT", "OUTPUT"} :
        \E k \in 1..Len(Buckets) :
            CountPorts(pl, Buckets[k][1], Buckets[k][2], side)
            > CountPorts(pl, Buckets[k][1], Buckets[k][2],
                         IF side = "INPUT" THEN "OUTPUT" ELSE "INPUT")}

\* C15: the alignment decision over the 8 buckets, taken in the order
\* (AUDIO, MIDI_JACK, MIDI_ALSA, PARAMETER) x (non-alternate, alternate),
\* enables the alignment if and only if all the buckets with unequal
\* input and output counts favour the same side; a bucket with equal
\* counts neither disables it nor changes the winner. A recompute records
\* that decision.
C15_AlignedIffOneSide ==
    /\ align_port_types(port_list)
            <=> Cardinality(FavouredSides(port_list)) <= 1
    /\ \A k \in 1..Len(Buckets) :
        port_types_aligner(port_list)[k]
            = << CountPorts(port_list, Buckets[k][1], Buckets[k][2], "INPUT"),
                 CountPorts(port_list, Buckets[k][1], Buckets[k][2],
                            "OUTPUT") >>
    /\ updatePositions(Box, TRUE, Idle).geom.align
            = align_port_types(port_list)

\* a recomputed box whose first bucket favours one side, whose second has
\* as many inputs as outputs and whose third favours the other side: the
\* alignment is disabled
C15_Witness ==
    /\ geom.align = FALSE
    /\ geom.align = align_port_types(port_list)
    /\ \E a \in {port_types_aligner(port_list)} :
        /\ a[1][1] # a[1][2]
        /\ a[2][1] = a[2][2]
        /\ a[2][1] > 0
        /\ a[3][1] # a[3][2]
        /\ (a[1][1] > a[1][2]) # (a[3][1] > a[3][2])

\* the linear blend, weighted by the box's ratio, between the Y of the
\* unwrapped layout and the collapsed Y, both whole numbers of pixels
BlendY(b, unwrapped_y, collapsed_y) ==
    IF b._wrapping
    THEN unwrapped_y
         - ((unwrapped_y - collapsed_y) \div Den) * b._wrapping_ratio
    ELSE collapsed_y
         + ((unwrapped_y - collapsed_y) \div Den) * b._wrapping_ratio

\* the box as it is once unwrapped and at rest
Unwrapped(b) ==
    [b EXCEPT !._wrapped = FALSE, !._wrapping = FALSE, !._unwrapping = FALSE]

\* a recompute gives every port of b the blended Y
PortsBlended(b) ==
    \E r \in {Layout(b)} : \E u \in {Layout(Unwrapped(b))} :
        \A id \in DOMAIN r.port_widget :
            r.port_widget[id].y
                = BlendY(b, u.port_widget[id].y, CollapsedY(r))

\* a recompute gives every portgroup widget of b the blended Y
PortGroupsBlended(b) ==
    \E r \in {Layout(b)} : \E u \in {Layout(Unwrapped(b))} :
        \A g \in DOMAIN r.portgrp_widget :
            r.portgrp_widget[g].y
                = BlendY(b, u.portgrp_widget[g].y, CollapsedY(r))

\* C16 as stated: while the box is wrapping or unwrapping, every Y that a
\* recompute assigns, to a port or to a portgroup widget, is the linear
\* blend between its unwrapped layout Y and the collapsed Y, weighted by
\* the eased ratio.
C16_EveryYBlended ==
    (_wrapping \/ _unwrapping) =>
        PortsBlended(Box) /\ PortGroupsBlended(Box)

\* C17: a recompute that is not suppressed calls updateLinePos on every
\* connection line registered on the box, after every port and portgroup
\* X, Y and width and the box's width and height of that pass are
\* assigned: each line's path is computed from the values the pass ends
\* with. It registers and removes no line; a suppressed recompute leaves
\* the paths alone.
C17_LinesAfterPositions ==
    \A even_animated \in BOOLEAN, scene \in SceneStates :
        \E r \in {updatePositions(Box, even_animated, scene)} :
            /\ Len(r.m_connection_lines) = Len(m_connection_lines)
            /\ \A i \in 1..Len(m_connection_lines) :
                /\ r.m_connection_lines[i].connection_id
                        = m_connection_lines[i].connection_id
                /\ r.m_connection_lines[i].port_id
                        = m_connection_lines[i].port_id
            /\ IF Suppressed(even_animated, scene)
               THEN r.m_connection_lines = m_connection_lines
               ELSE LinesFresh(r)

\* a line registered on a port that the next recompute moves: the
\* recompute gives the line a new path, from where the port ends
C17_Witness ==
    /\ Len(m_connection_lines) >= 1
    /\ \E r \in {updatePositions(Box, FALSE, Idle)} :
        /\ r.port_widget[m_connection_lines[1].port_id]
                # port_widget[m_connection_lines[1].port_id]
        /\ r.m_connection_lines[1].path # m_connection_lines[1].path
        /\ LinesFresh(r)

\* a title of four words
WordsName == << "a", "a", "a", "a", "a", "a", "a", " ", "a",
               "a", "a", " ", "a", "a", "a", "a", "a", "a",
               "a", " ", "a", "a", "a", "a", "a", "a", "a" >>

ChoiceNames == LayoutNames \cup {WordsName}

\* max(last_in_pos, last_out_pos) at the end of the Y pass of r
LastPos(r) ==
    Max(r.geom.cursors[Len(r.geom.cursors)][1],
        r.geom.cursors[Len(r.geom.cursors)][2])

\* the cost of a title of i lines: candidate width x candidate height,
\* the height 14 more for 3 lines or more, 5000 more for 4 lines
CandidateCost(r, i) ==
    Max(PortsRequirement(r), TitleTemplate(r, i).header_width)
        * (LastPos(r) + (IF i >= 3 THEN 14 ELSE 0))
    + (IF i = 4 THEN 5000 ELSE 0)

\* the candidate of least cost, the one of fewer lines among equals
MinCostChoice(r) ==
    CHOOSE i \in 1..4 :
        \A j \in 1..4 :
            \/ CandidateCost(r, i) < CandidateCost(r, j)
            \/ CandidateCost(r, i) = CandidateCost(r, j) /\ i <= j

\* C18 as stated: the title line count is the candidate of least cost
\* (cost = candidate width x candidate height, the height 14 more for 3
\* lines or more, 5000 more for 4 lines), and of two candidates of equal
\* cost the one of fewer lines is chosen: 2 lines over 3 when area_2 =
\* area_3, 3 lines over 4 when area_3 = area_4 + 5000. Two line counts that
\* split the title into the same lines are taken as the same choice.
C18_MinCostFewestLines ==
    \A group_name \in ChoiceNames :
        \E r \in {setGroupName(Box, group_name, Idle)} :
            /\ splitTitle(r, r.geom.lines_choice)
                    = splitTitle(r, MinCostChoice(r))
            /\ CandidateCost(r, 2) = CandidateCost(r, 3)
                    => r.geom.lines_choice # 3
            /\ CandidateCost(r, 3) = CandidateCost(r, 4)
                    => r.geom.lines_choice # 4

\* the Y of the lowest port of the column of port_mode, 0 for no port
ColumnEnd(r, port_mode) ==
    LET ys == {r.port_widget[r.port_list[i].port_id].y :
                 i \in {j \in 1..Len(r.port_list) :
                           r.port_list[j].port_mode = port_mode}}
    IN  IF ys = {} THEN 0 ELSE CHOOSE y \in ys : \A z \in ys : z <= y

\* the triangle is on the side of the shorter column, in the middle for
\* columns that end together
TriangleBySide(r) ==
    r.geom.p_unwrap_triangle_pos
        = IF ColumnEnd(r, "OUTPUT") > ColumnEnd(r, "INPUT") THEN "LEFT"
          ELSE IF ColumnEnd(r, "INPUT") > ColumnEnd(r, "OUTPUT") THEN "RIGHT"
          ELSE "CENTER"

\* C19 as stated: after a recompute of a box that is neither wrapped nor
\* animating, the unwrap triangle position is NONE if and only if the
\* box's final height p_height is below 100; otherwise it is CENTER when
\* the input and output columns end at the same Y, and LEFT or RIGHT
\* according to which column is taller.
C19_TriangleByFinalHeight ==
    (AtRest(Box) /\ ~_wrapped) =>
        \E r \in {updatePositions(Box, TRUE, Idle)} :
            /\ r.geom.p_unwrap_triangle_pos = "NONE"
                    <=> r.geom.p_height < SY(100)
            /\ r.geom.p_unwrap_triangle_pos # "NONE" => TriangleBySide(r)

\* C20 as stated: after a recompute every port that is a member of a
\* portgroup has the X and the width of its portgroup widget.
C20_SameAsWidget ==
    \E r \in {updatePositions(Box, TRUE, Idle)} :
        \A k \in 1..Len(r.portgrp_list) :
            \A j \in 1..Len(r.portgrp_list[k].port_id_list) :
                \E port \in {r.port_widget[r.portgrp_list[k].port_id_list[j]]},
                   grp \in {r.portgrp_widget[r.portgrp_list[k].portgrp_id]} :
                    /\ port.x = grp.x
                    /\ port.width = grp.width

\* C20, amended: after a recompute the member ports of a portgroup all
\* have the same X and the same width, the ports width that the recompute
\* records on the portgroup widget; an input member is at port_offset, one
\* less than its portgroup widget, and an output member ends where its
\* portgroup widget ends, p_width - port_offset - 12. The portgroup
\* widget has the width of its column, which its members need not have.
C20_MembersShareXAndWidth ==
    \E r \in {updatePositions(Box, TRUE, Idle)} :
        \A k \in 1..Len(r.portgrp_list) :
            \A j \in 1..Len(r.portgrp_list[k].port_id_list) :
                \E port \in {r.port_widget[r.portgrp_list[k].port_id_list[j]]},
                   grp \in {r.portgrp_widget[r.portgrp_list[k].portgrp_id]} :
                    /\ port.width = grp.ports_width
                    /\ port.width >= port_in_portgrp_width
                    /\ IF r.portgrp_list[k].port_mode = "INPUT"
                       THEN /\ port.x = port_offset
                            /\ grp.x = port_offset + 1
                            /\ grp.width = r.geom.p_width_in
                       ELSE /\ port.x + port.width
                                = r.geom.p_width - port_offset - 12
                            /\ grp.x + grp.width
                                = r.geom.p_width - port_offset - 12
                            /\ grp.width = r.geom.p_width_out

\* a laid out box with a portgroup of output ports narrower than their
\* portgroup widget, and further right
C20_Witness ==
    /\ Len(portgrp_list) >= 1
    /\ LaidOut(Box)
    /\ \E k \in 1..Len(portgrp_list) :
        /\ portgrp_list[k].port_mode = "OUTPUT"
        /\ \A j \in 1..Len(portgrp_list[k].port_id_list) :
            \E port \in {port_widget[portgrp_list[k].port_id_list[j]]},
               grp \in {portgrp_widget[portgrp_list[k].portgrp_id]} :
                /\ port.width < grp.width
                /\ port.x > grp.x
                /\ port.width = grp.ports_width

\* the drag curve has a path: updateLinePos has run on it
BezierDrawn ==
    /\ DOMAIN fn_in = DOMAIN NewLine("", "", 0, 0, "", 0)
    /\ fn_in.class = "CanvasBezierLineMov"
    /\ fn_out.path # << >>

\* of the drawn curve: how much further its ends are apart in Y than in X
DiffXY(path) ==
    Abs(path[4][2] - path[1][2]) - Abs(path[4][1] - path[1][1])

Sign(a) == IF a > 0 THEN 1 ELSE IF a < 0 THEN 0 - 1 ELSE 0

\* C21 as stated: the two control-point X of the drag curve are the
\* midpoint between the source X and the cursor X whenever |dy| <= |dx|,
\* and when |dy| > |dx| each is |dy| - |dx| from that midpoint, the first
\* away from the cursor and the second away from the source, for every
\* cursor position and both port modes.
C21_ControlsAtMidpoint ==
    BezierDrawn =>
        \E path \in {fn_out.path} :
        \E mid \in {(path[1][1] + path[4][1]) \div 2} :
            IF DiffXY(path) <= 0
            THEN path[2][1] = mid /\ path[3][1] = mid
            ELSE /\ Abs(path[2][1] - mid) = DiffXY(path)
                 /\ Abs(path[3][1] - mid) = DiffXY(path)
                 /\ Sign(path[2][1] - mid) # Sign(path[4][1] - mid)
                 /\ Sign(path[3][1] - mid) # Sign(path[1][1] - mid)

\* C21, amended: the first control point is half the horizontal distance
\* |dx| between source and cursor from the source, on the port's outer
\* side (right of an output, left of an input), and the second is as far
\* from the cursor on the other side; when |dy| > |dx| both go |dy| - |dx|
\* further the same way. Each has the Y of its end. They are the midpoint
\* only for |dy| <= |dx| and a cursor on the port's outer side.
C21_ControlsHalfWayOutward ==
    BezierDrawn =>
        \E path \in {fn_out.path} :
        \E out \in {IF fn_in.m_port_mode = "OUTPUT" THEN 1 ELSE 0 - 1} :
        \E reach \in {Abs(path[4][1] - path[1][1]) \div 2
                       + (IF DiffXY(path) > 0 THEN DiffXY(path) ELSE 0)} :
            /\ Len(path) = 4
            /\ path[2][1] = path[1][1] + out * reach
            /\ path[3][1] = path[4][1] - out * reach
            /\ path[2][2] = path[1][2]
            /\ path[3][2] = path[4][2]
            /\ (DiffXY(path) <= 0
                    /\ out * (path[4][1] - path[1][1]) >= 0)
                => /\ path[2][1] = (path[1][1] + path[4][1]) \div 2
                   /\ path[3][1] = (path[1][1] + path[4][1]) \div 2

\* the curve of an output port, the cursor left of the port and further
\* from it in Y than in X
C21_Witness ==
    /\ BezierDrawn
    /\ fn_in.m_port_mode = "OUTPUT"
    /\ fn_out.path[4][1] < fn_out.path[1][1]
    /\ DiffXY(fn_out.path) > 0
    /\ fn_out.path[2][1] > fn_out.path[1][1]

\* a drag line of either class, from a plain port, of which updateLinePos
\* has set the path
PortLineDrawn ==
    /\ DOMAIN fn_in = DOMAIN NewLine("", "", 0, 0, "", 0)
    /\ fn_in.parent_type = "CanvasPortType"
    /\ fn_out.path # << >>

\* port_height * (phi + pos * (n - 2 * phi) / (n - 1)) - port_height * pos
\* with phi = 0.75 if n > 2 else 0.62, and port_height / 2 when n <= 1,
\* in units of 1/LineScale
SourceOffset(pos, n) ==
    IF n <= 1 THEN (port_height * LineScale) \div 2
    ELSE LET phi100 == IF n > 2 THEN 75 ELSE 62
         IN  (port_height * LineScale
                * (phi100 * (n - 1) + pos * (100 * n - 2 * phi100)))
                \div (100 * (n - 1))
             - port_height * pos * LineScale

\* C22: for a drag line whose parent is a plain port at index pos of a
\* group of length n, the Y offset of the source end is
\* port_height * (phi + pos * (n - 2 * phi) / (n - 1)) - port_height * pos
\* with phi = 0.75 if n > 2 else 0.62, and port_height / 2 when n <= 1; it
\* lies within [0, port_height], and the offsets of pos and n - 1 - pos
\* sum to port_height.
C22_SourceOffset ==
    PortLineDrawn =>
        \E pos \in {fn_in.m_port_pos_from}, n \in {fn_in.m_portgrp_len_from} :
            /\ fn_out.path[1][2] = SourceOffset(pos, n)
            /\ fn_out.path[1][2] >= 0
            /\ fn_out.path[1][2] <= port_height * LineScale
            /\ n = 2 =>
                fn_out.path[1][2]
                    = IF pos = 0 THEN (port_height * 62 * LineScale) \div 100
                      ELSE (port_height * 38 * LineScale) \div 100
            /\ n >= 1 =>
                fn_out.path[1][2]
                + SourceY([fn_in EXCEPT !.m_port_pos_from = n - 1 - pos]).y
                    = port_height * LineScale

\* a drag line drawn from the second port of a group of two
C22_Witness ==
    /\ PortLineDrawn
    /\ fn_in.m_portgrp_len_from = 2
    /\ fn_in.m_port_pos_from = 1
    /\ fn_out.path[1][2] = (port_height * 38 * LineScale) \div 100

\* set_wrapped and animate_wrapping never leave both animation flags set
WrapFlagsExclusive == ~(_wrapping /\ _unwrapping)

\* C23: in every reachable state _wrapping and _unwrapping are never both
\* true, _wrapping implies that the target state _wrapped is true, and
\* _unwrapping implies that _wrapped is false.
C23_FlagsFollowTarget ==
    /\ ~(_wrapping /\ _unwrapping)
    /\ _wrapping => _wrapped
    /\ _unwrapping => ~_wrapped

\* C24: a box that is fully unwrapped (_wrapped false and neither
\* _wrapping nor _unwrapping) has every port and portgroup widget visible,
\* in particular after set_wrapped(True, animate=False) followed by
\* set_wrapped(False, animate=False).
C24_UnwrappedAllVisible ==
    /\ (~_wrapped /\ AtRest(Box)) =>
            /\ \A id \in DOMAIN port_widget : port_widget[id].visible
            /\ \A g \in DOMAIN portgrp_widget : portgrp_widget[g].visible
    /\ (~_wrapped /\ AtRest(Box)) =>
            \E b \in {set_wrapped(set_wrapped(Box, TRUE, FALSE), FALSE, FALSE)} :
                /\ \A id \in DOMAIN b.port_widget : b.port_widget[id].visible
                /\ \A g \in DOMAIN b.portgrp_widget :
                        b.portgrp_widget[g].visible

\* set_wrapped(yesno, animate=True) and the ticks of its animation up to
\* ratio 1.0, the scene being idle
WrapAnimated(b, yesno) ==
    animate_wrapping(
        animate_wrapping(
            animate_wrapping(set_wrapped(b, yesno, TRUE), 0, Idle),
            1, Idle),
        16, Idle)

\* a wrap and the unwrap after it, both animated to their end
WrapCycle(b) == WrapAnimated(WrapAnimated(b, TRUE), FALSE)

\* C25: a complete wrap/unwrap cycle from a fully unwrapped, laid-out box
\* restores every port and portgroup Y, the box width and height, the
\* position of the unwrap affordance and the visibility of every port.
C25_CycleRoundTrip ==
    (~_wrapped /\ AtRest(Box) /\ LaidOut(Box)) =>
        \E after \in {WrapCycle(Box)} :
            /\ SameLayout(Box, after)
            /\ after.geom.p_unwrap_triangle_pos = geom.p_unwrap_triangle_pos
            /\ \A id \in DOMAIN port_widget :
                    after.port_widget[id].visible = port_widget[id].visible
            /\ ~after._wrapped /\ AtRest(after)

\* the round trip of the cycle from the boxes whose widgets are all shown
CycleRoundTripOfShown ==
    (/\ ~_wrapped /\ AtRest(Box) /\ LaidOut(Box)
     /\ \A id \in DOMAIN port_widget : port_widget[id].visible
     /\ \A g \in DOMAIN portgrp_widget : portgrp_widget[g].visible) =>
        \E after \in {WrapCycle(Box)} :
            /\ SameLayout(Box, after)
            /\ after.geom.p_unwrap_triangle_pos = geom.p_unwrap_triangle_pos
            /\ SameVisibility(Box, after)
            /\ ~after._wrapped /\ AtRest(after)

\* C26: when canvas.scene.loading_items is set, or the box is in the
\* scene's move_boxes and even_animated is false, updatePositions changes
\* nothing: no port or portgroup X, Y or width, no box width or height,
\* header height, title line, current port mode or recorded previous
\* size, and it calls neither the scene-resize notifier nor any
\* connection line's update.
C26_SuppressedChangesNothing ==
    \A even_animated \in BOOLEAN, scene \in SceneStates :
        (scene.loading_items \/ (scene.in_move_boxes /\ ~even_animated)) =>
            \E r \in {updatePositions(Box, even_animated, scene)} :
                /\ r.port_widget = port_widget
                /\ r.portgrp_widget = portgrp_widget
                /\ r.geom = geom
                /\ r.m_connection_lines = m_connection_lines
                /\ r.n_resize = 0
                /\ r.n_recompute = 0
                /\ r = Box

\* a box with a connection line that the recompute would resize and whose
\* line it would redraw, had the scene not been moving it
C26_Witness ==
    /\ Len(m_connection_lines) >= 1
    /\ \E r \in {Layout(Box)} :
        /\ r.geom.p_width # geom.p_width
        /\ r.n_resize = 1
        /\ r.m_connection_lines # m_connection_lines
    /\ updatePositions(Box, FALSE,
                       [loading_items |-> FALSE, in_move_boxes |-> TRUE])
            = Box

\* C27: with auto_hide_groups enabled and no fade effect, the box is
\* visible if and only if its port list is non-empty: the first added port
\* shows it, the removal of the last port hides it, and a removal that
\* fails changes neither the visibility nor the port list.
C27_VisibleIffPorts ==
    /\ auto_hide_groups
    /\ box_visible <=> Len(port_list) > 0
    /\ \A port_id \in 1..(MaxPorts + 1), scene \in SceneStates :
        CanRemove(port_id) =>
        \E r \in {removePortFromGroup(Box, port_id, scene)} :
            IF \E i \in 1..Len(port_list) : port_list[i].port_id = port_id
            THEN /\ Len(r.port_list) = Len(port_list) - 1
                 /\ r.box_visible <=> Len(port_list) > 1
            ELSE /\ r.port_list = port_list
                 /\ r.box_visible = box_visible

\* the box shown by its first port, the removal of which would hide it and
\* the removal of another port would not
C27_Witness ==
    /\ box_visible
    /\ Len(port_list) = 1
    /\ ~removePortFromGroup(Box, port_list[1].port_id, Idle).box_visible
    /\ removePortFromGroup(Box, port_list[1].port_id + 1, Idle).box_visible

\* the places i of b where the ports i and i + 1 can make a portgroup
GroupablePairs(b) ==
    {i \in 1..(Len(b.port_list) - 1) :
        /\ b.port_list[i].port_mode = b.port_list[i + 1].port_mode
        /\ b.port_list[i].port_type = b.port_list[i + 1].port_type
        /\ b.port_list[i].is_alternate = b.port_list[i + 1].is_alternate
        /\ b.port_list[i].portgrp_id = 0
        /\ b.port_list[i + 1].portgrp_id = 0}

\* b with the portgroup portgrp_id made of its ports i and i + 1
WithPortGroup(b, portgrp_id, i, name_w) ==
    addPortGroupFromGroup(b, portgrp_id, b.port_list[i].port_mode,
                          b.port_list[i].port_type,
                          << b.port_list[i].port_id,
                             b.port_list[i + 1].port_id >>,
                          name_w)

\* the width the recompute gives the port at place i of a box whose
\* portgroup 1 is at i and named name_w, and portgroup 2 at j, named other_w
MemberWidth(b, i, name_w, j, other_w) ==
    Let(Layout(WithPortGroup(WithPortGroup(b, 1, i, name_w), 2, j, other_w)),
        LAMBDA r : r.port_widget[b.port_list[i].port_id].width)

\* the names a portgroup is given: none, or one 30 pixels wide
NamesOrNone == {0} \cup PortGrpNameWidths

\* C28: the width assigned to the member ports of a portgroup is raised
\* above the theme's port_in_portgrp_width only when that portgroup has a
\* non-empty name, and it depends neither on the name of another
\* portgroup of the box nor on the order the portgroups are processed in.
C28_OwnNameOnly ==
    portgrp_list = << >> =>
        \A i \in GroupablePairs(Box), j \in GroupablePairs(Box) :
            (j >= i + 2 \/ i >= j + 2) =>
                \A name_w \in NamesOrNone :
                    \E w \in {MemberWidth(Box, i, name_w, j, 0)} :
                        /\ w > port_in_portgrp_width => name_w > 0
                        /\ \A other_w \in NamesOrNone :
                            MemberWidth(Box, i, name_w, j, other_w) = w

\* C29: after every completed recompute all output ports of the box, solo
\* or members of a portgroup, share the same right edge,
\* X + width = p_width - port_offset - 12, and every input port has
\* X = port_offset.
C29_SharedEdges ==
    \E r \in {updatePositions(Box, TRUE, Idle)} :
        \A i \in 1..Len(r.port_list) :
            \E w \in {r.port_widget[r.port_list[i].port_id]} :
                IF r.port_list[i].port_mode = "OUTPUT"
                THEN w.x + w.width = r.geom.p_width - port_offset - 12
                ELSE w.x = port_offset

\* a laid out box with an output port in no portgroup and a narrower
\* output port in a portgroup, further right, and an input port
C29_Witness ==
    /\ LaidOut(Box)
    /\ \E i \in 1..Len(port_list), j \in 1..Len(port_list) :
        \E solo \in {port_widget[port_list[i].port_id]},
           member \in {port_widget[port_list[j].port_id]} :
            /\ port_list[i].port_mode = "OUTPUT"
            /\ port_list[j].port_mode = "OUTPUT"
            /\ port_list[i].portgrp_id = 0
            /\ port_list[j].portgrp_id # 0
            /\ member.width < solo.width
            /\ member.x > solo.x
            /\ member.x + member.width = solo.x + solo.width
    /\ \E i \in 1..Len(port_list) :
        /\ port_list[i].port_mode = "INPUT"
        /\ port_widget[port_list[i].port_id].x = port_offset

\* C30: for the same port mode, parent kind, source and destination
\* position and length and cursor position, the two end points of
\* CanvasLineMov's line are the start point and the end point of
\* CanvasBezierLineMov's path, also in the Bezier branch taken when the
\* destination position and length equal the source's; and one fails where
\* the other does.
C30_SameEndPoints ==
    (/\ DOMAIN fn_in = DOMAIN NewLine("", "", 0, 0, "", 0)
     /\ fn_in.m_port_mode \in {"INPUT", "OUTPUT"}) =>
        \A cursor \in Cursors :
            \E line \in {CanvasLineMov_updateLinePos(fn_in, fn_out, cursor)},
               curve \in {CanvasBezierLineMov_updateLinePos(fn_in, fn_out,
                                                            cursor)} :
                /\ line.error = curve.error
                /\ line.error = "none" =>
                    /\ Len(line.path) = 2
                    /\ Len(curve.path) = 4
                    /\ line.path[1] = curve.path[1]
                    /\ line.path[2] = curve.path[4]

\* a curve drawn from the last place of a portgroup of three that is also
\* its destination, ending off the cursor where the straight line ends
C30_Witness ==
    /\ DOMAIN fn_in = DOMAIN NewLine("", "", 0, 0, "", 0)
    /\ fn_in.class = "CanvasBezierLineMov"
    /\ fn_in.parent_type = "CanvasPortGroupType"
    /\ fn_in.m_portgrp_len_from = 3
    /\ fn_in.m_port_pos_from = 2
    /\ fn_in.m_portgrp_len_dest = 3
    /\ fn_in.m_port_pos_dest = 2
    /\ Len(fn_out.path) = 4
    /\ \E cursor \in Cursors :
        /\ fn_out.path[4][2] > cursor[2] * LineScale
        /\ CanvasLineMov_updateLinePos(fn_in, fn_out, cursor).path
                = << fn_out.path[1], fn_out.path[4] >>

=============================================================================
